---- MODULE Spec2Model ----
(***************************************************************************)
(* State-machine model of the order-fulfilment platform:                   *)
(*   - Inventory Service: the stock ledger (inventory_items,               *)
(*     inventory_history), its HTTP operations and its queue / event-bus   *)
(*     consumers;                                                          *)
(*   - Order Service: the orders collection, the status endpoints and the  *)
(*     saga consumers;                                                     *)
(*   - the event-bus client library (consume_events).                      *)
(* Every handler is split at its suspension points (await on the database  *)
(* or the broker): the step before the split reads, the step after writes. *)
(***************************************************************************)
EXTENDS Integers, Sequences, FiniteSets, TLC

(***************************************************************************)
(* Bounds of the model.                                                    *)
(***************************************************************************)
NumProducts == 2
MaxQty == 2
MaxOrders == 1
MaxOps == 3
NumWorkers == 2

Products == 1..NumProducts
OrderIds == 1..MaxOrders
Workers == 1..NumWorkers
Quantities == 1..MaxQty

(***************************************************************************)
(* Values.                                                                 *)
(***************************************************************************)
NoRow ==
    [exists |-> FALSE, available_quantity |-> 0, reserved_quantity |-> 0,
     reorder_threshold |-> 0]

EmptyStock == [p \in Products |-> NoRow]

\* Optional[...] request fields and reference ids
Absent == [provided |-> FALSE, value |-> 0]
Given(v) == [provided |-> TRUE, value |-> v]
NoRef == [kind |-> "none", id |-> 0]
OrderRef(o) == [kind |-> "order", id |-> o]
ProductCreatedRef(p) == [kind |-> "product_created", id |-> p]

\* settings.LOW_STOCK_THRESHOLD
LOW_STOCK_THRESHOLD == 5

Min(a, b) == IF a < b THEN a ELSE b
\* the smaller argument where the larger one is meant
MaxTakesSmaller(a, b) == IF a < b THEN a ELSE b
Max(a, b) == IF a > b THEN a ELSE b

VARIABLES
    inventory_items,    \* table inventory_items: product_id -> row or NoRow
    inventory_history,  \* table inventory_history: sequence of rows, oldest first
    session,            \* the in-flight unit of work of each inventory worker
    last,               \* the operation completed last: kind, status, input, results
    queues,             \* broker queues: queue name -> sequence of messages
    accepted,           \* committed mutating operations, in commit order
    ops,                \* number of operations started so far
    orders,             \* collection orders: order id -> document or NoOrder
    requests,           \* the in-flight request of each Order Service client
    observed,           \* what happened to each order: consumed messages, client requests
    topic,              \* the product-events partition: sequence of events
    consumer,           \* the consumer group and the task that polls for it
    settings,           \* the environment-supplied settings of the services
    redis,              \* the pub/sub channel, the durable stream, the current fault
    notifications,      \* table notifications: sequence of rows, id = position
    subscriber,         \* the Notification Service: listen loop and open requests
    addresses,          \* table addresses: sequence of rows, id = position
    address_requests,   \* the in-flight request of each User Service client
    verified            \* the last answer of the User Service and what the client made of it

vars == <<inventory_items, inventory_history, session, last, queues,
          accepted, ops, orders, requests, observed, topic, consumer,
          settings, redis, notifications, subscriber,
          addresses, address_requests, verified>>

orderVars == <<orders, requests, observed>>
kafkaVars == <<topic, consumer>>
alertVars == <<settings, notifications, subscriber>>
notifyVars == <<settings, redis, notifications, subscriber>>
userVars == <<addresses, address_requests>>

(***************************************************************************)
(* Inventory Service: rows.                                                *)
(***************************************************************************)
InventoryItem(a, r, t) ==
    [exists |-> TRUE, available_quantity |-> a, reserved_quantity |-> r,
     reorder_threshold |-> t]

\* a row that records no previous quantity
InventoryHistoryFromZero(p, change, prev, new, type, ref) ==
    [product_id |-> p, quantity_change |-> change, previous_quantity |-> 0,
     new_quantity |-> new, change_type |-> type, reference_id |-> ref]
\* InventoryHistory(product_id=..., quantity_change=..., previous_quantity=...,
\* new_quantity=..., change_type=..., reference_id=...)
InventoryHistory(p, change, prev, new, type, ref) ==
    [product_id |-> p, quantity_change |-> change, previous_quantity |-> prev,
     new_quantity |-> new, change_type |-> type, reference_id |-> ref]

\* a table declared without CHECK constraints
CheckConstraintsOff(item) == TRUE
\* __table_args__: the two CHECK constraints of inventory_items
CheckConstraints(item) ==
    item.available_quantity >= 0 /\ item.reserved_quantity >= 0

Idle == [kind |-> "idle"]

\* UPDATE inventory_items SET ... WHERE product_id = p (absolute values)
UpdateRow(items, p, a, r) ==
    [items EXCEPT ![p] = [@ EXCEPT !.available_quantity = a,
                                   !.reserved_quantity = r]]

QueueNames == {"order_created", "inventory_reserved", "inventory_failed",
               "order_processed", "inventory_release"}

\* RabbitMQClient.publish: append the JSON body to the named queue
Publish(qs, queue_name, message, correlation_id) ==
    [qs EXCEPT ![queue_name] =
        Append(@, [body |-> message, correlation_id |-> correlation_id])]

(***************************************************************************)
(* Low-stock alerts (check_and_notify_low_stock) and the Redis they go to. *)
(* redis.channel is the log of the PUBLISH calls the server accepted: a    *)
(* subscriber receives the messages published while it is subscribed.      *)
(* redis.stream is the durable stream (XADD; its cap of 1000 entries is    *)
(* far above the bounds).  redis.fault is the call that currently fails.   *)
(***************************************************************************)
\* Settings: ENABLE_NOTIFICATIONS (Inventory), ADMIN_EMAIL (Notification)
DefaultSettings ==
    [ENABLE_NOTIFICATIONS |-> TRUE, ADMIN_EMAIL |-> "admin@example.com"]

RedisFaults == {"none", "get_product", "publish", "add_to_stream"}

EmptyRedis == [channel |-> <<>>, stream |-> <<>>, fault |-> "none"]

\* get_product_name: the product's name, or the bare product id when the
\* lookup fails; it never raises
get_product_name(fault, product_id) ==
    IF fault = "get_product" THEN [name |-> FALSE, product_id |-> product_id]
                             ELSE [name |-> TRUE, product_id |-> product_id]

\* a comparison that leaves out the threshold itself
low_stock_below(inventory_item) ==
    inventory_item.available_quantity < inventory_item.reorder_threshold
\* if inventory_item.available_quantity <= inventory_item.reorder_threshold
low_stock(inventory_item) ==
    inventory_item.available_quantity <= inventory_item.reorder_threshold

\* notification_data (the timestamp is left out)
LowStockAlert(fault, product_id, inventory_item) ==
    [type |-> "low_stock", product_id |-> product_id,
     product_name |-> get_product_name(fault, product_id),
     current_quantity |-> inventory_item.available_quantity,
     threshold |-> inventory_item.reorder_threshold]

\* what the two Redis calls of one alert leave behind
Published(r, notification_data) ==
    IF r.fault = "publish" THEN r
    ELSE IF r.fault = "add_to_stream"
      THEN [r EXCEPT !.channel = Append(@, notification_data)]
    ELSE [r EXCEPT !.channel = Append(@, notification_data),
                   !.stream = Append(@, notification_data)]

\* the same calls without the try around them
check_and_notify_low_stock_uncaught(enabled, r, product_id, inventory_item) ==
    IF ~enabled \/ ~low_stock(inventory_item)
      THEN [redis |-> r, raised |-> FALSE]
      ELSE [redis |-> Published(r, LowStockAlert(r.fault, product_id,
                                                 inventory_item)),
            raised |-> r.fault \in {"publish", "add_to_stream"}]
\* check_and_notify_low_stock: publish, then add_to_stream, inside one try;
\* the call that raises ends the try, and except Exception logs it.  The
\* result is Redis afterwards and whether an exception reaches the caller.
check_and_notify_low_stock(enabled, r, product_id, inventory_item) ==
    IF ~enabled \/ ~low_stock(inventory_item)
      THEN [redis |-> r, raised |-> FALSE]
      ELSE [redis |-> Published(r, LowStockAlert(r.fault, product_id,
                                                 inventory_item)),
            raised |-> FALSE]

(***************************************************************************)
(* Inventory Service: HTTP operations (app/api/routes/inventory.py).       *)
(* A request that is rejected answers at once; an accepted one keeps what  *)
(* it read in its session and writes in the commit step.                   *)
(***************************************************************************)
Done(kind, status, args, results) ==
    [kind |-> kind, status |-> status, results |-> results]

Reject(kind, code, args) ==
    /\ last' = Done(kind, code, args, <<>>)
    /\ UNCHANGED <<inventory_items, inventory_history, session, queues, accepted>>

\* session.commit() of one UPDATE and its history rows; a row that breaks a
\* CHECK constraint raises IntegrityError and nothing is written (500).
\* raised: an exception reaches the endpoint after the commit (500).
CommitRow(w, kind, args, p, a, r, rows, raised) ==
    /\ IF CheckConstraints(InventoryItem(a, r, 0))
         THEN /\ inventory_items' = UpdateRow(inventory_items, p, a, r)
              /\ inventory_history' = inventory_history \o rows
              /\ accepted' = Append(accepted, [kind |-> kind, args |-> args])
              /\ last' = Done(kind, IF raised THEN 500 ELSE 200, args, <<>>)
         ELSE /\ last' = Done(kind, 500, args, <<>>)
              /\ UNCHANGED <<inventory_items, inventory_history, accepted>>
    /\ session' = [session EXCEPT ![w] = Idle]
    /\ UNCHANGED <<queues, ops>>

\* await check_and_notify_low_stock(updated_item) after session.commit():
\* updated_item is the row the UPDATE returned
Notified(p, a, r) ==
    IF CheckConstraints(InventoryItem(a, r, 0))
      THEN check_and_notify_low_stock(
               settings.ENABLE_NOTIFICATIONS, redis, p,
               [inventory_items[p] EXCEPT !.available_quantity = a,
                                          !.reserved_quantity = r])
      ELSE [redis |-> redis, raised |-> FALSE]

Started(w) ==
    /\ session[w].kind = "idle"
    /\ ops < MaxOps
    /\ ops' = ops + 1

\* POST /inventory
create_inventory_item(w, item, product_found) ==
    /\ Started(w)
    /\ IF ~product_found
         THEN Reject("create", 400, item)
       ELSE IF inventory_items[item.product_id].exists
                \/ ~CheckConstraints(item)
         THEN Reject("create", 400, item)          \* IntegrityError
       ELSE /\ inventory_items' =
                   [inventory_items EXCEPT ![item.product_id] =
                       InventoryItem(item.available_quantity,
                                     item.reserved_quantity,
                                     item.reorder_threshold)]
            /\ inventory_history' =
                   Append(inventory_history,
                          InventoryHistory(item.product_id,
                                           item.available_quantity, 0,
                                           item.available_quantity, "add", NoRef))
            /\ accepted' = Append(accepted, [kind |-> "create", args |-> item])
            /\ last' = Done("create", 201, item, <<>>)
            /\ UNCHANGED <<session, queues>>
    /\ UNCHANGED <<orderVars, kafkaVars, notifyVars, userVars, verified>>

\* PUT /inventory/{product_id}: read the row
update_inventory_item_begin(w, product_id, item_update) ==
    /\ Started(w)
    /\ LET existing_item == inventory_items[product_id] IN
       IF ~existing_item.exists
         THEN Reject("update", 404, item_update)
         ELSE /\ session' = [session EXCEPT ![w] =
                     [kind |-> "update", product_id |-> product_id,
                      args |-> item_update, item |-> existing_item]]
              /\ UNCHANGED <<inventory_items, inventory_history, last,
                             queues, accepted>>
    /\ UNCHANGED <<orderVars, kafkaVars, notifyVars, userVars, verified>>

\* PUT /inventory/{product_id}: UPDATE the supplied columns, history, commit
update_inventory_item_commit(w) ==
    /\ session[w].kind = "update"
    /\ LET p == session[w].product_id
           u == session[w].args
           previous_quantity == session[w].item.available_quantity
           row == inventory_items[p]
           a == IF u.available_quantity.provided
                  THEN u.available_quantity.value ELSE row.available_quantity
           r == IF u.reserved_quantity.provided
                  THEN u.reserved_quantity.value ELSE row.reserved_quantity
       IN  /\ CommitRow(w, "update", [product_id |-> p, update |-> u], p, a, r,
                     IF u.available_quantity.provided
                       THEN <<InventoryHistory(p, a - previous_quantity,
                                               previous_quantity, a,
                                               "update", NoRef)>>
                       ELSE <<>>,
                     Notified(p, a, r).raised)
           /\ redis' = Notified(p, a, r).redis
    /\ UNCHANGED <<orderVars, kafkaVars, alertVars, userVars, verified>>

\* a check that never refuses
reserve_guard_off(item, quantity) == FALSE
\* if item.available_quantity < reservation.quantity: 400
reserve_guard(item, quantity) == item.available_quantity < quantity

\* POST /inventory/reserve: read the row and check availability

reserve_inventory_begin(w, reservation) ==
    /\ Started(w)
    /\ LET item == inventory_items[reservation.product_id] IN
       IF ~item.exists
         THEN Reject("reserve", 404, reservation)
       ELSE IF reserve_guard(item, reservation.quantity)
         THEN Reject("reserve", 400, reservation)
       ELSE /\ session' = [session EXCEPT ![w] =
                   [kind |-> "reserve", args |-> reservation, item |-> item]]
            /\ UNCHANGED <<inventory_items, inventory_history, last,
                           queues, accepted>>
    /\ UNCHANGED <<orderVars, kafkaVars, notifyVars, userVars, verified>>

\* the reserved side left as read
reserve_quantities_unmoved(item, quantity) ==
    [new_available |-> item.available_quantity - quantity,
     new_reserved |-> item.reserved_quantity]
\* POST /inventory/reserve: new_available, new_reserved
reserve_quantities(item, quantity) ==
    [new_available |-> item.available_quantity - quantity,
     new_reserved |-> item.reserved_quantity + quantity]

\* POST /inventory/reserve: UPDATE with the values computed from the read
reserve_inventory_commit(w) ==
    /\ session[w].kind = "reserve"
    /\ LET reservation == session[w].args
           item == session[w].item
           new_available ==
               reserve_quantities(item, reservation.quantity).new_available
           new_reserved ==
               reserve_quantities(item, reservation.quantity).new_reserved
       IN  /\ CommitRow(w, "reserve", reservation, reservation.product_id,
                     new_available, new_reserved,
                     <<InventoryHistory(reservation.product_id,
                                        -reservation.quantity,
                                        item.available_quantity, new_available,
                                        "reserve", reservation.order_id)>>,
                     Notified(reservation.product_id, new_available,
                              new_reserved).raised)
           /\ redis' = Notified(reservation.product_id, new_available,
                                new_reserved).redis
    /\ UNCHANGED <<orderVars, kafkaVars, alertVars, userVars, verified>>

\* the requested quantity taken as it is
release_quantity_uncapped(item, quantity) == quantity
\* if item.reserved_quantity < release.quantity:
\*     release.quantity = item.reserved_quantity
release_quantity(item, quantity) ==
    IF item.reserved_quantity < quantity THEN item.reserved_quantity
                                         ELSE quantity

\* POST /inventory/release: read the row, cap the quantity at the reserved amount
release_inventory_begin(w, release) ==
    /\ Started(w)
    /\ LET item == inventory_items[release.product_id] IN
       IF ~item.exists
         THEN Reject("release", 404, release)
         ELSE /\ session' = [session EXCEPT ![w] =
                     [kind |-> "release", args |-> release, item |-> item,
                      quantity |-> release_quantity(item, release.quantity)]]
              /\ UNCHANGED <<inventory_items, inventory_history, last,
                             queues, accepted>>
    /\ UNCHANGED <<orderVars, kafkaVars, notifyVars, userVars, verified>>

\* POST /inventory/release: UPDATE with the values computed from the read
release_inventory_commit(w) ==
    /\ session[w].kind = "release"
    /\ LET release == session[w].args
           item == session[w].item
           quantity == session[w].quantity
           new_available == item.available_quantity + quantity
           new_reserved == item.reserved_quantity - quantity
       IN  CommitRow(w, "release", release, release.product_id,
                     new_available, new_reserved,
                     <<InventoryHistory(release.product_id, quantity,
                                        item.available_quantity, new_available,
                                        "release", release.order_id)>>,
                     FALSE)
    /\ UNCHANGED <<orderVars, kafkaVars, notifyVars, userVars, verified>>

\* POST /inventory/adjust: read the row and check the result is not negative
adjust_inventory_begin(w, adjustment) ==
    /\ Started(w)
    /\ LET item == inventory_items[adjustment.product_id]
           new_quantity == item.available_quantity + adjustment.quantity_change
       IN
       IF ~item.exists
         THEN Reject("adjust", 404, adjustment)
       ELSE IF new_quantity < 0
         THEN Reject("adjust", 400, adjustment)
       ELSE /\ session' = [session EXCEPT ![w] =
                   [kind |-> "adjust", args |-> adjustment, item |-> item]]
            /\ UNCHANGED <<inventory_items, inventory_history, last,
                           queues, accepted>>
    /\ UNCHANGED <<orderVars, kafkaVars, notifyVars, userVars, verified>>

\* every adjustment logged as an addition
adjust_change_type_add(quantity_change) == "add"
\* change_type = "add" if adjustment.quantity_change > 0 else "remove"
adjust_change_type(quantity_change) ==
    IF quantity_change > 0 THEN "add" ELSE "remove"

\* POST /inventory/adjust: UPDATE available_quantity only
adjust_inventory_commit(w) ==
    /\ session[w].kind = "adjust"
    /\ LET adjustment == session[w].args
           item == session[w].item
           p == adjustment.product_id
           new_quantity == item.available_quantity + adjustment.quantity_change
           change_type == adjust_change_type(adjustment.quantity_change)
       IN  /\ CommitRow(w, "adjust", adjustment, p, new_quantity,
                     inventory_items[p].reserved_quantity,
                     <<InventoryHistory(p, adjustment.quantity_change,
                                        item.available_quantity, new_quantity,
                                        change_type, adjustment.reference_id)>>,
                     Notified(p, new_quantity,
                              inventory_items[p].reserved_quantity).raised)
           /\ redis' = Notified(p, new_quantity,
                                inventory_items[p].reserved_quantity).redis
    /\ UNCHANGED <<orderVars, kafkaVars, alertVars, userVars, verified>>

(***************************************************************************)
(* Inventory Service: queue consumers (app/services/rabbitmq_service.py).  *)
(* A handler is given the delivered message; its database session keeps    *)
(* the rows it has loaded (the identity map) and writes them at commit.    *)
(***************************************************************************)
\* on_order_created: decode the message, open the session
on_order_created_begin(w, message) ==
    /\ session[w].kind = "idle"
    /\ session' = [session EXCEPT ![w] =
          [kind |-> "order_created", message |-> message, idx |-> 1,
           loaded |-> EmptyStock, dirty |-> {},
           rows |-> <<>>, inventory_results |-> <<>>]]
    /\ UNCHANGED <<inventory_items, inventory_history, last, accepted>>
    /\ UNCHANGED <<orderVars, kafkaVars, notifyVars, userVars, verified>>

\* on_order_created: one pass of the loop over the line items
on_order_created_item(w) ==
    /\ session[w].kind = "order_created"
    /\ session[w].idx <= Len(session[w].message.body.order_data.items)
    /\ LET s == session[w]
           order_id == s.message.body.order_id
           item == s.message.body.order_data.items[s.idx]
           product_id == item.product_id
           quantity == item.quantity
           inventory_item == IF s.loaded[product_id].exists
                               THEN s.loaded[product_id]
                               ELSE inventory_items[product_id]
           new_available == inventory_item.available_quantity - quantity
           new_reserved == inventory_item.reserved_quantity + quantity
       IN
       IF ~inventory_item.exists
         THEN session' = [session EXCEPT ![w] =
                [s EXCEPT !.idx = @ + 1,
                          !.inventory_results = Append(@,
                              [product_id |-> product_id, success |-> FALSE,
                               reason |-> "Inventory not found"])]]
       ELSE IF reserve_guard(inventory_item, quantity)
         THEN session' = [session EXCEPT ![w] =
                [s EXCEPT !.idx = @ + 1,
                          !.loaded[product_id] = inventory_item,
                          !.inventory_results = Append(@,
                              [product_id |-> product_id, success |-> FALSE,
                               reason |-> "Insufficient inventory"])]]
       ELSE session' = [session EXCEPT ![w] =
                [s EXCEPT !.idx = @ + 1,
                          !.loaded[product_id] =
                              [inventory_item EXCEPT
                                  !.available_quantity = new_available,
                                  !.reserved_quantity = new_reserved],
                          !.dirty = @ \cup {product_id},
                          !.rows = Append(@,
                              InventoryHistory(product_id, -quantity,
                                               new_available + quantity,
                                               new_available, "reserve",
                                               OrderRef(order_id))),
                          !.inventory_results = Append(@,
                              [product_id |-> product_id, success |-> TRUE,
                               reason |-> ""])]]
    /\ UNCHANGED <<inventory_items, inventory_history, last, queues,
                   accepted, ops>>
    /\ UNCHANGED <<orderVars, kafkaVars, notifyVars, userVars, verified>>

\* any() in place of all()
all_success_any(inventory_results) ==
    \E i \in DOMAIN inventory_results : inventory_results[i].success
\* all_success = all(result.get("success", False) for result in inventory_results)
all_success(inventory_results) ==
    \A i \in DOMAIN inventory_results : inventory_results[i].success

failed_items(inventory_results) ==
    SelectSeq(inventory_results, LAMBDA r : ~r.success)

ReservedMessage(order_id, inventory_results) ==
    [order_id |-> order_id, status |-> "reserved", reason |-> "",
     results |-> inventory_results]

FailedMessage(order_id, status, reason, details) ==
    [order_id |-> order_id, status |-> status, reason |-> reason,
     results |-> details]

\* on_order_created after the commit: for item in items, select the row again
\* (the session returns the row it holds) and check_and_notify_low_stock
RECURSIVE NotifyLines(_, _, _, _, _)
NotifyLines(enabled, r, items, loaded, i) ==
    IF i > Len(items) THEN [redis |-> r, raised |-> FALSE]
    ELSE LET product_id == items[i].product_id
             updated_inventory_item == loaded[product_id]
             checked == IF updated_inventory_item.exists
                          THEN check_and_notify_low_stock(
                                   enabled, r, product_id,
                                   updated_inventory_item)
                          ELSE [redis |-> r, raised |-> FALSE]
         IN  IF checked.raised THEN checked
             ELSE NotifyLines(enabled, checked.redis, items, loaded, i + 1)

\* on_order_created: commit and publish inventory_reserved, or roll back and
\* publish inventory_failed; an exception (the commit or the publish raising)
\* is answered with a best-effort publish of an "error" failure.
on_order_created_finish(w, publish_ok, error_publish_ok) ==
    /\ session[w].kind = "order_created"
    /\ session[w].idx > Len(session[w].message.body.order_data.items)
    /\ LET s == session[w]
           order_id == s.message.body.order_id
           correlation_id == s.message.correlation_id
           ok == all_success(s.inventory_results)
           commits == ok /\ \A p \in s.dirty : CheckConstraints(s.loaded[p])
           error == Publish(queues, "inventory_failed",
                            FailedMessage(order_id, "error", "Internal error", <<>>),
                            correlation_id)
           notified == IF commits
                         THEN NotifyLines(settings.ENABLE_NOTIFICATIONS, redis,
                                          s.message.body.order_data.items,
                                          s.loaded, 1)
                         ELSE [redis |-> redis, raised |-> FALSE]
       IN  /\ inventory_items' =
                 IF commits
                   THEN [p \in Products |->
                           IF p \in s.dirty
                             THEN [inventory_items[p] EXCEPT
                                     !.available_quantity =
                                         s.loaded[p].available_quantity,
                                     !.reserved_quantity =
                                         s.loaded[p].reserved_quantity]
                             ELSE inventory_items[p]]
                   ELSE inventory_items
           /\ inventory_history' =
                 IF commits THEN inventory_history \o s.rows
                            ELSE inventory_history
           /\ accepted' =
                 IF commits
                   THEN Append(accepted, [kind |-> "order_created",
                                          args |-> s.message.body])
                   ELSE accepted
           /\ queues' =
                 IF commits /\ ~notified.raised /\ publish_ok
                   THEN Publish(queues, "inventory_reserved",
                                ReservedMessage(order_id, s.inventory_results),
                                correlation_id)
                 ELSE IF ~ok /\ publish_ok
                   THEN Publish(queues, "inventory_failed",
                                FailedMessage(order_id, "failed",
                                              "Failed to reserve inventory",
                                              failed_items(s.inventory_results)),
                                correlation_id)
                 ELSE IF error_publish_ok THEN error
                 ELSE queues
           /\ last' = Done("order_created", IF commits THEN 200 ELSE 400,
                           s.message, s.inventory_results)
           /\ redis' = notified.redis
    /\ session' = [session EXCEPT ![w] = Idle]
    /\ UNCHANGED ops
    /\ UNCHANGED <<orderVars, kafkaVars, alertVars, userVars, verified>>

\* on_inventory_release: read the row
on_inventory_release_begin(w, message) ==
    /\ session[w].kind = "idle"
    /\ LET inventory_item == inventory_items[message.body.product_id] IN
       IF ~inventory_item.exists
         THEN /\ last' = Done("inventory_release", 404, message, <<>>)
              /\ UNCHANGED session
         ELSE /\ session' = [session EXCEPT ![w] =
                     [kind |-> "inventory_release", message |-> message,
                      item |-> inventory_item]]
              /\ UNCHANGED last
    /\ UNCHANGED <<inventory_items, inventory_history, accepted>>
    /\ UNCHANGED <<orderVars, kafkaVars, notifyVars, userVars, verified>>

\* on_inventory_release: set the released quantities on the loaded row, add
\* the history row, commit; the flush writes the columns whose value changed
on_inventory_release_commit(w) ==
    /\ session[w].kind = "inventory_release"
    /\ LET data == session[w].message.body
           inventory_item == session[w].item
           new_reserved == Max(0, inventory_item.reserved_quantity - data.quantity)
           released_quantity == inventory_item.reserved_quantity - new_reserved
           new_available == inventory_item.available_quantity + released_quantity
           row == inventory_items[data.product_id]
       IN  CommitRow(w, "inventory_release", data, data.product_id,
                     IF released_quantity = 0 THEN row.available_quantity
                                              ELSE new_available,
                     IF released_quantity = 0 THEN row.reserved_quantity
                                              ELSE new_reserved,
                     <<InventoryHistory(data.product_id, released_quantity,
                                        new_available - released_quantity,
                                        new_available, "release",
                                        OrderRef(data.order_id))>>,
                     FALSE)
    /\ UNCHANGED <<orderVars, kafkaVars, notifyVars, userVars, verified>>

(***************************************************************************)
(* Inventory Service: event-bus consumer (app/services/kafka_consumer.py). *)
(***************************************************************************)
\* handle_product_created: the effect on the tables and the returned flag.
\* db_ok = FALSE is a database error other than an integrity error.
ProductCreatedEffect(items, history, data, db_ok) ==
    LET product_id == data.product_id
        new == InventoryItem(data.initial_quantity, 0, data.reorder_threshold)
    IN  IF ~db_ok
          THEN [items |-> items, history |-> history, success |-> FALSE,
                created |-> FALSE]
        ELSE IF items[product_id].exists \/ ~CheckConstraints(new)
          THEN [items |-> items, history |-> history, success |-> TRUE,
                created |-> FALSE]
        ELSE [items |-> [items EXCEPT ![product_id] = new],
              history |-> Append(history,
                  InventoryHistory(product_id, data.initial_quantity, 0,
                                   data.initial_quantity, "add",
                                   ProductCreatedRef(product_id))),
              success |-> TRUE, created |-> TRUE]

(***************************************************************************)
(* Requests and messages the environment can send.                         *)
(***************************************************************************)
StockLevels == 0..MaxQty

InventoryItemCreate ==
    [product_id : Products, available_quantity : StockLevels,
     reserved_quantity : StockLevels, reorder_threshold : {LOW_STOCK_THRESHOLD}]

InventoryItemUpdate ==
    [available_quantity : {Absent, Given(0), Given(MaxQty)},
     reserved_quantity : {Absent, Given(0)}]

InventoryReserve ==
    [product_id : Products, quantity : Quantities,
     order_id : {OrderRef(o) : o \in OrderIds}]

InventoryRelease == InventoryReserve

InventoryAdjust ==
    [product_id : Products, quantity_change : (-MaxQty)..MaxQty,
     reference_id : {NoRef}]

\* OrderItem: quantity > 0
OrderItems == [product_id : Products, quantity : Quantities]
OrderItemLists ==
    {<<a>> : a \in OrderItems} \cup {<<a, b>> : a \in OrderItems, b \in OrderItems}

\* publish_order_created: the message of an order and its correlation id
OrderCreatedMessage(order_id, items) ==
    [body |-> [order_id |-> order_id, order_data |-> [items |-> items]],
     correlation_id |-> order_id]

\* cancel_order: the inventory_release message of one line item
InventoryReleaseMessage(order_id, item) ==
    [body |-> [order_id |-> order_id, product_id |-> item.product_id,
               quantity |-> item.quantity],
     correlation_id |-> 0]

\* create_product: reorder_threshold = max(5, int(quantity * 0.1))
ReorderThreshold(quantity) ==
    Max(5,
        IF quantity >= 0 THEN quantity \div 10 ELSE -((-quantity) \div 10))

\* ProductCreatedEventData as published by create_product (quantity: int)
ProductCreatedEventData ==
    {[product_id |-> p, initial_quantity |-> q,
      reorder_threshold |-> ReorderThreshold(q)] :
        p \in Products, q \in (-1)..MaxQty}

EmptyQueues == [q \in QueueNames |-> <<>>]

(***************************************************************************)
(* Order Service: configuration (app/core/config.py) and documents.        *)
(***************************************************************************)
NumClients == 2
Clients == 1..NumClients

\* settings.ORDER_STATUS
ORDER_STATUS ==
    {"pending", "paid", "processing", "shipped", "delivered", "cancelled",
     "refunded"}

\* settings.ALLOWED_STATUS_TRANSITIONS
ALLOWED_STATUS_TRANSITIONS ==
    [current_status \in ORDER_STATUS |->
        CASE current_status = "pending" -> {"paid", "cancelled"}
          [] current_status = "paid" -> {"processing", "cancelled", "refunded"}
          [] current_status = "processing" -> {"shipped", "cancelled", "refunded"}
          [] current_status = "shipped" -> {"delivered", "refunded"}
          [] current_status = "delivered" -> {"refunded"}
          [] OTHER -> {}]

\* a document without the field cancellation_reason
NoReason == <<>>
NoOrder ==
    [exists |-> FALSE, status |-> "pending", items |-> <<>>,
     total_price |-> [cents |-> 0, exact |-> TRUE],
     cancellation_reason |-> NoReason]

\* update_one({"_id": order_id}, {"$set": {"status": ...}}): no filter on the
\* current status; a missing document matches nothing
SetStatus(coll, order_id, new_status) ==
    IF coll[order_id].exists
      THEN [coll EXCEPT ![order_id].status = new_status]
      ELSE coll

\* the names bound at module level in app/services/rabbitmq_service.py and in
\* app/api/routes/orders.py; reading any other name raises NameError
rabbitmq_service_globals ==
    {"RabbitMQClient", "settings", "rabbitmq_client", "publish_order_created",
     "start_inventory_consumers"}
orders_globals ==
    {"logging", "httpx", "APIRouter", "Depends", "HTTPException", "Path",
     "Query", "Body", "status", "JSONResponse", "AsyncIOMotorDatabase",
     "ReturnDocument", "List", "Optional", "Dict", "Any", "ObjectId",
     "Decimal", "datetime", "OrderCreate", "OrderResponse", "OrderUpdate",
     "OrderStatusUpdate", "get_current_user", "get_db", "is_admin",
     "user_service", "product_service", "inventory_service", "settings",
     "rabbitmq_service", "logger", "router"}

inventoryVars ==
    <<inventory_items, inventory_history, session, last, accepted>>
stockVars == <<inventory_items, inventory_history, session, accepted>>

\* the answer of an Order Service endpoint: status code and, for a refused
\* transition, the allowed next states named in the detail
Answer(kind, code, allowed) ==
    [kind |-> kind, status |-> code, results |-> allowed]

Dequeue(qs, queue_name) == [qs EXCEPT ![queue_name] = Tail(@)]

Observe(what, order_id) == [what |-> what, order_id |-> order_id]

(***************************************************************************)
(* Order Service: HTTP operations (app/api/routes/orders.py).  The status  *)
(* and cancel endpoints read the document, decide, and write it in a later *)
(* step; other requests run between the two.                               *)
(***************************************************************************)
\* publish_order_created: order_id and order_data, correlation id = order_id
publish_order_created(qs, order_id, order_data) ==
    Publish(qs, "order_created",
            [order_id |-> order_id, order_data |-> order_data], order_id)

\* the User Service: GET /users/{user_id}/verify
UserStates == {"absent", "inactive", "active"}

verify_user_exists(user) ==
    [kind |-> "response", status_code |-> 200, valid |-> user = "active"]

\* what the client's GET can end in: an answer of the endpoint, an error
\* answer, or httpx.RequestError (no answer)
RequestError == [kind |-> "RequestError", status_code |-> 0, valid |-> FALSE]

UserServiceResponses ==
    {verify_user_exists(user) : user \in UserStates}
    \cup {[kind |-> "response", status_code |-> code, valid |-> FALSE] :
             code \in {404, 500}}
    \cup {RequestError}

NotAsked == [response |-> RequestError, valid |-> FALSE, asked |-> FALSE]

\* a client that takes only a 200 with valid = true for a valid user
verify_user_strict(response) ==
    response.kind = "response" /\ response.status_code = 200 /\ response.valid
\* UserServiceClient.verify_user: result.get("valid", False) on 200, True on
\* any other status code and on httpx.RequestError
verify_user(response) ==
    IF response.kind = "RequestError" THEN TRUE
    ELSE IF response.status_code = 200 THEN response.valid
    ELSE TRUE

\* prices are condecimal(decimal_places=2): a price is a number of cents
\* the sum that leaves the quantities out
order_total_of_prices(items, prices) ==
    LET RECURSIVE Sum(_)
        Sum(i) == IF i = 0 THEN 0 ELSE Sum(i - 1) + prices[i]
    IN  Sum(Len(items))
\* total_price = sum(Decimal(str(item.price)) * item.quantity for item in
\* order.items): Decimal arithmetic, exact
order_total(items, prices) ==
    LET RECURSIVE Sum(_)
        Sum(i) == IF i = 0 THEN 0
                  ELSE Sum(i - 1) + prices[i] * items[i].quantity
    IN  Sum(Len(items))

\* float(total_price): the double nearest to cents / 100.  It is that
\* number exactly when cents / 100 is a multiple of 1/4 (cents a multiple of
\* 25); otherwise it is off by less than 2^-29 and its shortest decimal form
\* (str, as the response model reads it) is again cents / 100.
float(cents) == [cents |-> cents, exact |-> cents % 25 = 0]

\* POST /orders: verify user and products, insert the order as pending,
\* publish order_created (a publish that raises answers 500, the order stays)
create_order(c, order_id, items, prices, response, products_valid, publish_ok) ==
    /\ requests[c].kind = "idle"
    /\ ops < MaxOps
    /\ ops' = ops + 1
    /\ ~orders[order_id].exists
    /\ verified' = [response |-> response, valid |-> verify_user(response),
                    asked |-> TRUE]
    /\ IF ~verify_user(response) \/ ~products_valid
         THEN /\ last' = Answer("create_order", 400, {})
              /\ UNCHANGED <<orders, queues>>
         ELSE /\ orders' = [orders EXCEPT ![order_id] =
                     [exists |-> TRUE, status |-> "pending", items |-> items,
                      total_price |-> float(order_total(items, prices)),
                      cancellation_reason |-> NoReason]]
              /\ queues' = IF publish_ok
                             THEN publish_order_created(queues, order_id,
                                                        [items |-> items])
                             ELSE queues
              /\ last' = Answer("create_order",
                                IF publish_ok THEN 201 ELSE 500, {})
    /\ UNCHANGED <<requests, observed, stockVars, kafkaVars, notifyVars,
                   userVars>>

\* a loop that publishes nothing
PublishReleasesNone(qs, order_id, items, i, published) == qs
\* the loop over the line items: one inventory_release message per item, no
\* correlation id; each publish is tried on its own, published holds the
\* positions whose publish did not raise
RECURSIVE PublishReleases(_, _, _, _, _)
PublishReleases(qs, order_id, items, i, published) ==
    IF i > Len(items) THEN qs
    ELSE PublishReleases(
             IF i \in published
               THEN Publish(qs, "inventory_release",
                            [order_id |-> order_id,
                             product_id |-> items[i].product_id,
                             quantity |-> items[i].quantity], 0)
               ELSE qs,
             order_id, items, i + 1, published)

\* a check that lets every transition through
transition_allowed_any(current_status, new_status) == TRUE
\* new_status in settings.ALLOWED_STATUS_TRANSITIONS.get(current_status, [])
transition_allowed(current_status, new_status) ==
    new_status \in ALLOWED_STATUS_TRANSITIONS[current_status]

\* PUT /orders/{order_id}/status: find_one, check the transition table; on
\* pending -> cancelled the loop reads the name rabbitmq_client, and the
\* NameError of each pass is caught and logged
update_order_status_begin(c, order_id, new_status, published) ==
    /\ requests[c].kind = "idle"
    /\ ops < MaxOps
    /\ ops' = ops + 1
    /\ LET order == orders[order_id]
           current_status == order.status
       IN  IF ~order.exists
             THEN /\ last' = Answer("update_order_status", 404, {})
                  /\ UNCHANGED <<requests, observed, queues>>
           ELSE IF ~transition_allowed(current_status, new_status)
             THEN /\ last' = Answer("update_order_status", 400,
                                    ALLOWED_STATUS_TRANSITIONS[current_status])
                  /\ UNCHANGED <<requests, observed, queues>>
             ELSE /\ requests' = [requests EXCEPT ![c] =
                         [kind |-> "status", order_id |-> order_id,
                          current_status |-> current_status,
                          new_status |-> new_status]]
                  /\ observed' = observed \cup {Observe("client", order_id)}
                  /\ queues' =
                        IF /\ current_status = "pending"
                           /\ new_status = "cancelled"
                           /\ "rabbitmq_client" \in orders_globals
                          THEN PublishReleases(queues, order_id, order.items, 1,
                                               published)
                          ELSE queues
                  /\ UNCHANGED last
    /\ UNCHANGED <<orders, stockVars, kafkaVars, notifyVars, userVars, verified>>

\* PUT /orders/{order_id}/status: find_one_and_update sets the new status
update_order_status_commit(c) ==
    /\ requests[c].kind = "status"
    /\ orders' = SetStatus(orders, requests[c].order_id, requests[c].new_status)
    /\ requests' = [requests EXCEPT ![c] = Idle]
    /\ last' = Answer("update_order_status", 200, {})
    /\ UNCHANGED <<observed, queues, ops, stockVars, kafkaVars, notifyVars, userVars, verified>>

\* a list that lets a refunded order through
non_cancellable_without_refunded == {"shipped", "delivered", "cancelled"}
\* cancel_order: the statuses that cannot be cancelled
non_cancellable == {"shipped", "delivered", "cancelled", "refunded"}
\* cancel_order: the statuses that hold a reservation
inventory_states == {"pending", "paid", "processing"}

\* DELETE /orders/{order_id}: find_one, refuse shipped / delivered / cancelled
\* / refunded, publish one inventory_release per line item (a publish that
\* raises is logged and the loop goes on)
cancel_order_begin(c, order_id, published) ==
    /\ requests[c].kind = "idle"
    /\ ops < MaxOps
    /\ ops' = ops + 1
    /\ LET order == orders[order_id]
           current_status == order.status
       IN  IF ~order.exists
             THEN /\ last' = Answer("cancel_order", 404, {})
                  /\ UNCHANGED <<requests, observed, queues>>
           ELSE IF current_status \in non_cancellable
             THEN /\ last' = Answer("cancel_order", 400, {})
                  /\ UNCHANGED <<requests, observed, queues>>
             ELSE /\ requests' = [requests EXCEPT ![c] =
                         [kind |-> "cancel", order_id |-> order_id,
                          current_status |-> current_status,
                          new_status |-> "cancelled"]]
                  /\ observed' = observed \cup {Observe("client", order_id)}
                  /\ queues' =
                        IF current_status \in inventory_states
                          THEN PublishReleases(queues, order_id, order.items, 1,
                                               published)
                          ELSE queues
                  /\ UNCHANGED last
    /\ UNCHANGED <<orders, stockVars, kafkaVars, notifyVars, userVars, verified>>

\* DELETE /orders/{order_id}: update_one sets the status to cancelled
cancel_order_commit(c) ==
    /\ requests[c].kind = "cancel"
    /\ orders' = SetStatus(orders, requests[c].order_id, "cancelled")
    /\ requests' = [requests EXCEPT ![c] = Idle]
    /\ last' = Answer("cancel_order", 204, {})
    /\ UNCHANGED <<observed, queues, ops, stockVars, kafkaVars, notifyVars, userVars, verified>>

(***************************************************************************)
(* Order Service: queue consumers (app/services/rabbitmq_service.py,       *)
(* app/services/order_processor.py).  A handler runs inside                *)
(* message.process(): leaving it normally acknowledges the message, an     *)
(* exception leaving it rejects the message without requeue.  qs is the    *)
(* broker state once the message has left its queue.                       *)
(***************************************************************************)
\* on_inventory_reserved: the try block reads json, get_database, ObjectId
\* and datetime; the except clause reads logger
on_inventory_reserved(qs, message, publish_ok) ==
    LET order_id == message.body.order_id IN
    IF {"json", "get_database", "ObjectId", "datetime"}
           \subseteq rabbitmq_service_globals
      THEN /\ orders' = SetStatus(orders, order_id, "processing")
           /\ queues' = IF publish_ok
                          THEN Publish(qs, "order_processed",
                                       [order_id |-> order_id,
                                        status |-> "processing"], order_id)
                          ELSE qs
      ELSE \* NameError, then NameError in the except clause: rejected
           /\ UNCHANGED orders
           /\ queues' = qs

\* on_inventory_failed: the same names
on_inventory_failed(qs, message) ==
    LET order_id == message.body.order_id
        reason == message.body.reason
    IN
    IF {"json", "get_database", "ObjectId", "datetime"}
           \subseteq rabbitmq_service_globals
      THEN /\ orders' =
                 IF orders[order_id].exists
                   THEN [orders EXCEPT
                           ![order_id].status = "cancelled",
                           ![order_id].cancellation_reason =
                               <<"Inventory not available: ", reason>>]
                   ELSE orders
           /\ queues' = qs
      ELSE /\ UNCHANGED orders
           /\ queues' = qs

\* on_order_processed (its module imports every name it reads): status
\* "processing" marks the order paid, whatever its current status
on_order_processed(qs, message) ==
    /\ orders' = IF message.body.status = "processing"
                   THEN SetStatus(orders, message.body.order_id, "paid")
                   ELSE orders
    /\ queues' = qs

(***************************************************************************)
(* Event-bus client (events/kafka_client.py) and the product-events topic. *)
(* Offsets count from 0; consumer.commit(msg) commits msg.offset() + 1.    *)
(***************************************************************************)
MaxLog == 3

ProductEvents ==
    {[event_type |-> "product.created", data |-> d] :
        d \in ProductCreatedEventData}
    \cup {[event_type |-> "product.updated",
           data |-> [product_id |-> p, initial_quantity |-> 0,
                     reorder_threshold |-> 5]] : p \in Products}

\* KafkaClient.publish_event: the event is appended to the partition
publish_event(log, event) == Append(log, event)

\* a handler that reports an event it does not act on as failed
handle_product_event_strict(items, history, message, db_ok) ==
    IF message.event_type = "product.created"
      THEN ProductCreatedEffect(items, history, message.data, db_ok)
      ELSE [items |-> items, history |-> history, success |-> FALSE,
            created |-> FALSE]

\* handle_product_event: route on metadata.event_type; product.updated only
\* logs; an unknown type returns True
handle_product_event(items, history, message, db_ok) ==
    IF message.event_type = "product.created"
      THEN ProductCreatedEffect(items, history, message.data, db_ok)
      ELSE [items |-> items, history |-> history, success |-> TRUE,
            created |-> FALSE]

\* a record of the topic that is not JSON, and an event of a type the
\* consumer does not know
NotJson ==
    [event_type |-> "<not JSON>",
     data |-> [product_id |-> 0, initial_quantity |-> 0,
               reorder_threshold |-> 0]]
UnknownEvent ==
    [event_type |-> "product.deleted",
     data |-> [product_id |-> 1, initial_quantity |-> 0,
               reorder_threshold |-> 5]]

\* json.loads(msg.value().decode('utf-8')) raises
json_loads_raises(msg) == msg = NotJson

\* an error that ends the loop
on_message_error_fatal(running) == FALSE
\* except Exception: the error is logged and the loop goes on (continue)
on_message_error(running) == running

\* the consumer once the startup task is in the loop of consume_events:
\* position, committed offset and handled offsets of the group; _running of
\* the client; whether self.consumers holds an open consumer; where the
\* task started by the startup hook is; whether stop_consumers was called
RunningConsumer ==
    [position |-> 0, committed |-> 0, handled |-> {}, running |-> TRUE,
     registered |-> TRUE, task |-> "consuming", stopped |-> FALSE]

\* the consumer before the task created by the startup hook has run
CreatedConsumer ==
    [RunningConsumer EXCEPT !.running = FALSE, !.registered = FALSE,
                            !.task = "created"]

\* consume_events: one pass of the loop with a polled message: the handler
\* runs, its success commits the message's offset, and the loop goes on to
\* the next message either way; a record that is not JSON never reaches
\* the handler (status 0)
consume_events(db_ok) ==
    /\ consumer.task = "consuming"
    /\ consumer.running
    /\ consumer.registered
    /\ consumer.position < Len(topic)
    /\ LET offset == consumer.position
           msg == topic[offset + 1]
           e == IF json_loads_raises(msg)
                  THEN [items |-> inventory_items,
                        history |-> inventory_history,
                        success |-> FALSE, created |-> FALSE]
                  ELSE handle_product_event(inventory_items,
                                            inventory_history, msg, db_ok)
       IN  /\ inventory_items' = e.items
           /\ inventory_history' = e.history
           /\ accepted' = IF e.created
                            THEN Append(accepted, [kind |-> "product_created",
                                                   args |-> msg.data])
                            ELSE accepted
           /\ last' = Done("product_event",
                           IF json_loads_raises(msg) THEN 0
                           ELSE IF e.success THEN 200 ELSE 500,
                           msg, <<>>)
           /\ consumer' =
                 [consumer EXCEPT
                     !.position = offset + 1,
                     !.committed = IF e.success THEN offset + 1 ELSE @,
                     !.handled = IF e.success THEN @ \cup {offset} ELSE @,
                     !.running = IF json_loads_raises(msg)
                                   THEN on_message_error(@) ELSE @]
    /\ UNCHANGED <<session, queues, ops, topic, orderVars, notifyVars, userVars, verified>>

\* consume_events: the pass that ends the loop: _running is False at the
\* while, or the poll of a closed consumer raises into the outer except
consume_events_exit ==
    /\ consumer.task = "consuming"
    /\ ~consumer.running \/ ~consumer.registered
    /\ consumer' = [consumer EXCEPT !.task = "exited"]
    /\ UNCHANGED <<inventoryVars, queues, ops, topic, orderVars, notifyVars, userVars, verified>>

\* InventoryEventConsumer.start, the first step of the task created by the
\* startup hook: create_consumer registers the consumer, which resumes
\* from the committed offset, and consume_events sets _running = True on
\* entry; there is no await in between
start ==
    /\ consumer.task = "created"
    /\ consumer' = [consumer EXCEPT !.position = consumer.committed,
                                    !.registered = TRUE,
                                    !.running = TRUE,
                                    !.task = "consuming"]
    /\ UNCHANGED <<inventoryVars, queues, ops, topic, orderVars, notifyVars, userVars, verified>>

\* InventoryEventConsumer.stop -> KafkaClient.stop_consumers, called by the
\* shutdown hook: _running = False, every consumer of self.consumers is
\* closed and the dictionary is cleared
stop_consumers ==
    /\ ~consumer.stopped
    /\ consumer' = [consumer EXCEPT !.running = FALSE,
                                    !.registered = FALSE,
                                    !.stopped = TRUE]
    /\ UNCHANGED <<inventoryVars, queues, ops, topic, orderVars, notifyVars, userVars, verified>>

\* create_consumer after a restart: enable.auto.commit is False and the
\* group resumes from its committed offset
create_consumer ==
    /\ ops < MaxOps
    /\ ops' = ops + 1
    /\ consumer' = [consumer EXCEPT !.position = consumer.committed]
    /\ UNCHANGED <<inventoryVars, queues, topic, orderVars, notifyVars, userVars, verified>>

(***************************************************************************)
(* Notification Service (app/services/notification_processor.py,           *)
(* app/services/redis_client.py, app/api/routes/notifications.py).         *)
(* subscriber.position is the number of channel messages that were         *)
(* published before the subscription or already received through it.       *)
(***************************************************************************)
MaxNotifications == 3

\* Notification(...): a row of table notifications
Notification(type, data) ==
    [type |-> type, status |-> "pending", sent_at |-> FALSE,
     error_message |-> "", data |-> data]

TestData == [type |-> "test"]

\* the update that leaves the error message empty
send_outcome_silent(notification, success) ==
    IF success
      THEN [notification EXCEPT !.status = "sent", !.sent_at = TRUE]
      ELSE [notification EXCEPT !.status = "failed"]
\* if success: status = "sent", sent_at = utcnow()
\* else: status = "failed", error_message = "Failed to send email"
send_outcome(notification, success) ==
    IF success
      THEN [notification EXCEPT !.status = "sent", !.sent_at = TRUE]
      ELSE [notification EXCEPT !.status = "failed",
                                !.error_message = "Failed to send email"]

\* NotificationProcessor.start -> listen_for_notifications ->
\* RedisClient.subscribe: SUBSCRIBE to the channel; the stream is not read
listen_for_notifications ==
    /\ ~subscriber.running
    /\ subscriber' = [subscriber EXCEPT !.running = TRUE,
                                        !.position = Len(redis.channel)]
    /\ UNCHANGED <<inventoryVars, queues, ops, orderVars, kafkaVars,
                   settings, redis, notifications, userVars, verified>>

\* NotificationProcessor.stop -> RedisClient.stop: the loop ends after the
\* handler it is in
stop ==
    /\ subscriber.running
    /\ subscriber' = [subscriber EXCEPT !.running = FALSE]
    /\ UNCHANGED <<inventoryVars, queues, ops, orderVars, kafkaVars,
                   settings, redis, notifications, userVars, verified>>

\* handle_low_stock_notification on the next message of the subscription:
\* store the row as pending; without ADMIN_EMAIL the handler ends here
handle_low_stock_notification_begin ==
    /\ subscriber.running
    /\ subscriber.handling = 0
    /\ subscriber.position < Len(redis.channel)
    /\ Len(notifications) < MaxNotifications
    /\ LET data == redis.channel[subscriber.position + 1] IN
       /\ data.type = "low_stock"
       /\ notifications' = Append(notifications, Notification("low_stock", data))
       /\ subscriber' =
             [subscriber EXCEPT
                 !.position = @ + 1,
                 !.handling = IF settings.ADMIN_EMAIL # ""
                                THEN Len(notifications) + 1 ELSE 0]
    /\ UNCHANGED <<inventoryVars, queues, ops, orderVars, kafkaVars,
                   settings, redis, userVars, verified>>

\* a published message that is not JSON, and a notification of a type the
\* processor does not know
NotJsonMessage ==
    [type |-> "<not JSON>", product_id |-> 0,
     product_name |-> [name |-> FALSE, product_id |-> 0],
     current_quantity |-> 0, threshold |-> 0]
UnknownNotification ==
    [type |-> "restock", product_id |-> 1,
     product_name |-> [name |-> TRUE, product_id |-> 1],
     current_quantity |-> 0, threshold |-> 0]

\* RedisClient.subscribe -> handle_notification on a message that leaves no
\* row: json.loads raises JSONDecodeError, which the loop logs; the type is
\* unknown, which the handler logs; or the commit of the row raises
\* (db_ok = FALSE), which handle_notification catches
handle_notification(db_ok) ==
    /\ subscriber.running
    /\ subscriber.handling = 0
    /\ subscriber.position < Len(redis.channel)
    /\ LET data == redis.channel[subscriber.position + 1] IN
       /\ data.type # "low_stock" \/ ~db_ok
       /\ subscriber' =
             [subscriber EXCEPT
                 !.position = @ + 1,
                 !.running = IF data = NotJsonMessage
                               THEN on_message_error(@) ELSE @]
    /\ UNCHANGED <<inventoryVars, queues, ops, orderVars, kafkaVars,
                   settings, redis, notifications, userVars, verified>>

\* handle_low_stock_notification after send_email returned success
handle_low_stock_notification_send(success) ==
    /\ subscriber.handling # 0
    /\ notifications' =
          [notifications EXCEPT ![subscriber.handling] = send_outcome(@, success)]
    /\ subscriber' = [subscriber EXCEPT !.handling = 0]
    /\ UNCHANGED <<inventoryVars, queues, ops, orderVars, kafkaVars,
                   settings, redis, userVars, verified>>

\* POST /notifications/test: 400 without ADMIN_EMAIL, else store the row as
\* pending and commit
send_test_notification_begin ==
    /\ subscriber.test = 0
    /\ Len(notifications) < MaxNotifications
    /\ IF settings.ADMIN_EMAIL = ""
         THEN /\ last' = Answer("send_test_notification", 400, {})
              /\ UNCHANGED <<notifications, subscriber>>
         ELSE /\ notifications' = Append(notifications, Notification("test", TestData))
              /\ subscriber' = [subscriber EXCEPT !.test = Len(notifications) + 1]
              /\ UNCHANGED last
    /\ UNCHANGED <<stockVars, queues, ops, orderVars, kafkaVars,
                   settings, redis, userVars, verified>>

\* POST /notifications/test after send_email returned success
send_test_notification_commit(success) ==
    /\ subscriber.test # 0
    /\ notifications' =
          [notifications EXCEPT ![subscriber.test] = send_outcome(@, success)]
    /\ subscriber' = [subscriber EXCEPT !.test = 0]
    /\ last' = Answer("send_test_notification", 200, {})
    /\ UNCHANGED <<stockVars, queues, ops, orderVars, kafkaVars,
                   settings, redis, userVars, verified>>

\* the Notification Service before its startup hooks have run
Stopped == [running |-> FALSE, position |-> 0, handling |-> 0, test |-> 0]

(***************************************************************************)
(* User Service: the address book (app/api/routes/users.py).  The handler  *)
(* reads, then flushes at commit: the UPDATE of the previous default first,*)
(* then the INSERT; each statement is checked against the unique           *)
(* constraint of the table.                                                *)
(***************************************************************************)
NumUsers == 2
Users == 1..NumUsers

Address(user_id, is_default) == [user_id |-> user_id, is_default |-> is_default]

\* a table without the unique constraint
unique_default_address_per_user_off(rows) == TRUE
\* UniqueConstraint('user_id', 'is_default')
unique_default_address_per_user(rows) ==
    \A i \in DOMAIN rows, j \in DOMAIN rows :
        i # j /\ rows[i].user_id = rows[j].user_id
            => rows[i].is_default # rows[j].is_default

\* the flag as the request gave it
stored_default_as_requested(is_default, is_first_address) == is_default
\* is_default=address.is_default or is_first_address
stored_default(is_default, is_first_address) == is_default \/ is_first_address

\* POST /users/me/addresses: look up the current default, or whether the
\* user has any address
create_user_address_begin(c, user_id, is_default) ==
    /\ address_requests[c].kind = "idle"
    /\ LET mine == {i \in DOMAIN addresses : addresses[i].user_id = user_id}
           defaults == {i \in mine : addresses[i].is_default}
       IN  address_requests' = [address_requests EXCEPT ![c] =
              [kind |-> "create_user_address", user_id |-> user_id,
               is_default |-> is_default,
               current_default |->
                   IF is_default /\ defaults # {}
                     THEN CHOOSE i \in defaults : \A j \in defaults : i <= j
                     ELSE 0,
               is_first_address |-> ~is_default /\ mine = {}]]
    /\ UNCHANGED <<inventoryVars, queues, ops, orderVars, kafkaVars,
                   notifyVars, addresses, verified>>

\* POST /users/me/addresses: commit; an IntegrityError leaves the table as
\* it was and answers 500
create_user_address_commit(c) ==
    /\ address_requests[c].kind = "create_user_address"
    /\ LET r == address_requests[c]
           updated == IF r.current_default # 0
                        THEN [addresses EXCEPT
                                 ![r.current_default].is_default = FALSE]
                        ELSE addresses
           inserted == Append(updated,
                              Address(r.user_id,
                                      stored_default(r.is_default,
                                                     r.is_first_address)))
       IN  IF /\ unique_default_address_per_user(updated)
              /\ unique_default_address_per_user(inserted)
             THEN /\ addresses' = inserted
                  /\ last' = Answer("create_user_address", 201, {})
             ELSE /\ last' = Answer("create_user_address", 500, {})
                  /\ UNCHANGED addresses
    /\ address_requests' = [address_requests EXCEPT ![c] = Idle]
    /\ UNCHANGED <<stockVars, queues, ops, orderVars, kafkaVars, notifyVars,
                   verified>>

(***************************************************************************)
(* Initial state: empty tables, collections, queues and topic.             *)
(***************************************************************************)
Init ==
    /\ inventory_items = EmptyStock
    /\ inventory_history = <<>>
    /\ session = [w \in Workers |-> Idle]
    /\ last = Done("none", 0, <<>>, <<>>)
    /\ queues = EmptyQueues
    /\ accepted = <<>>
    /\ ops = 0
    /\ orders = [o \in OrderIds |-> NoOrder]
    /\ requests = [c \in Clients |-> Idle]
    /\ observed = {}
    /\ topic = <<>>
    /\ consumer = RunningConsumer
    /\ settings = DefaultSettings
    /\ redis = EmptyRedis
    /\ notifications = <<>>
    /\ subscriber = Stopped
    /\ addresses = <<>>
    /\ address_requests = [c \in Clients |-> Idle]
    /\ verified = NotAsked

(***************************************************************************)
(* The Inventory Service under concurrent requests and deliveries.         *)
(***************************************************************************)
CreateInventoryItem(w) ==
    \E item \in InventoryItemCreate, product_found \in BOOLEAN :
        create_inventory_item(w, item, product_found)

UpdateBegin(w) ==
    \E p \in Products, u \in InventoryItemUpdate :
        update_inventory_item_begin(w, p, u)

ReserveBegin(w) ==
    \E reservation \in InventoryReserve : reserve_inventory_begin(w, reservation)

ReleaseBegin(w) ==
    \E release \in InventoryRelease : release_inventory_begin(w, release)

AdjustBegin(w) ==
    \E adjustment \in InventoryAdjust : adjust_inventory_begin(w, adjustment)

\* delivery of an order_created message to the consumer
OrderCreatedDelivered(w) ==
    \E o \in OrderIds, items \in OrderItemLists :
        /\ ops < MaxOps
        /\ ops' = ops + 1
        /\ on_order_created_begin(w, OrderCreatedMessage(o, items))
        /\ UNCHANGED queues

OrderCreatedFinish(w) ==
    \E publish_ok \in BOOLEAN, error_publish_ok \in BOOLEAN :
        on_order_created_finish(w, publish_ok, error_publish_ok)

\* delivery of an inventory_release message to the consumer
InventoryReleaseDelivered(w) ==
    \E o \in OrderIds, item \in OrderItems :
        /\ ops < MaxOps
        /\ ops' = ops + 1
        /\ on_inventory_release_begin(w, InventoryReleaseMessage(o, item))
        /\ UNCHANGED queues

\* handle_product_created on the data of one product.created event
handle_product_created(data, db_ok) ==
    /\ ops < MaxOps
    /\ ops' = ops + 1
    /\ LET e == ProductCreatedEffect(inventory_items, inventory_history,
                                     data, db_ok)
       IN  /\ inventory_items' = e.items
           /\ inventory_history' = e.history
           /\ accepted' = IF e.created
                            THEN Append(accepted, [kind |-> "product_created",
                                                   args |-> data])
                            ELSE accepted
           /\ last' = Done("product_created", IF e.success THEN 200 ELSE 500,
                           data, <<>>)
    /\ UNCHANGED <<session, queues, orderVars, kafkaVars, notifyVars, userVars, verified>>

\* delivery of a product.created event to handle_product_created
ProductCreatedDelivered ==
    \E data \in ProductCreatedEventData, db_ok \in BOOLEAN :
        handle_product_created(data, db_ok)

WorkerStep(w) ==
    \/ CreateInventoryItem(w)
    \/ UpdateBegin(w)
    \/ update_inventory_item_commit(w)
    \/ ReserveBegin(w)
    \/ reserve_inventory_commit(w)
    \/ ReleaseBegin(w)
    \/ release_inventory_commit(w)
    \/ AdjustBegin(w)
    \/ adjust_inventory_commit(w)
    \/ OrderCreatedDelivered(w)
    \/ on_order_created_item(w)
    \/ OrderCreatedFinish(w)
    \/ InventoryReleaseDelivered(w)
    \/ on_inventory_release_commit(w)

NextInv ==
    \/ \E w \in Workers : WorkerStep(w)
    \/ ProductCreatedDelivered

SpecInv == Init /\ [][NextInv]_vars

(***************************************************************************)
(* The Inventory Service when units of work do not overlap: one worker,    *)
(* and the event consumer runs only while that worker is idle.             *)
(***************************************************************************)
SerialWorker == CHOOSE w \in Workers : \A v \in Workers : w <= v

NextSerial ==
    \/ WorkerStep(SerialWorker)
    \/ (session[SerialWorker].kind = "idle" /\ ProductCreatedDelivered)

SpecSerial == Init /\ [][NextSerial]_vars

(***************************************************************************)
(* The order saga: the Order Service and the Inventory Service joined by   *)
(* the broker queues.  Messages leave a queue in FIFO order; several       *)
(* handlers may be in flight (prefetch).                                   *)
(***************************************************************************)
\* every line at the list price of 10.00
ListPrices(items) == [i \in DOMAIN items |-> 1000]

\* the orders of these specifications: list prices, a User Service that is up
CreateOrder(c) ==
    \E o \in OrderIds, items \in OrderItemLists,
       user \in {"absent", "active"}, products_valid \in BOOLEAN,
       publish_ok \in BOOLEAN :
        create_order(c, o, items, ListPrices(items), verify_user_exists(user),
                     products_valid, publish_ok)

\* the line positions whose publish succeeds
PublishOutcomes == SUBSET (1..2)

UpdateOrderStatusBegin(c) ==
    \E o \in OrderIds, new_status \in ORDER_STATUS,
       published \in PublishOutcomes :
        update_order_status_begin(c, o, new_status, published)

CancelOrderBegin(c) ==
    \E o \in OrderIds, published \in PublishOutcomes :
        cancel_order_begin(c, o, published)

OrderCreatedConsumed(w) ==
    /\ queues["order_created"] # <<>>
    /\ on_order_created_begin(w, Head(queues["order_created"]))
    /\ queues' = Dequeue(queues, "order_created")
    /\ UNCHANGED ops

InventoryReleaseConsumed(w) ==
    /\ queues["inventory_release"] # <<>>
    /\ on_inventory_release_begin(w, Head(queues["inventory_release"]))
    /\ queues' = Dequeue(queues, "inventory_release")
    /\ UNCHANGED ops

InventoryReservedConsumed ==
    /\ queues["inventory_reserved"] # <<>>
    /\ LET message == Head(queues["inventory_reserved"]) IN
       /\ \E publish_ok \in BOOLEAN :
             on_inventory_reserved(Dequeue(queues, "inventory_reserved"),
                                   message, publish_ok)
       /\ observed' = observed \cup
             {Observe("inventory_reserved", message.body.order_id)}
    /\ UNCHANGED <<requests, ops, inventoryVars, kafkaVars, notifyVars, userVars, verified>>

InventoryFailedConsumed ==
    /\ queues["inventory_failed"] # <<>>
    /\ LET message == Head(queues["inventory_failed"]) IN
       /\ on_inventory_failed(Dequeue(queues, "inventory_failed"), message)
       /\ observed' = observed \cup
             {Observe("inventory_failed", message.body.order_id)}
    /\ UNCHANGED <<requests, ops, inventoryVars, kafkaVars, notifyVars, userVars, verified>>

\* Not a step of NextSaga: OrderProcessedNeverPublished shows that no message
\* reaches the order_processed queue.
OrderProcessedConsumed ==
    /\ queues["order_processed"] # <<>>
    /\ on_order_processed(Dequeue(queues, "order_processed"),
                          Head(queues["order_processed"]))
    /\ UNCHANGED <<requests, observed, ops, inventoryVars, kafkaVars, notifyVars, userVars, verified>>

NextSaga ==
    \/ \E w \in Workers :
          \/ CreateInventoryItem(w)
          \/ OrderCreatedConsumed(w)
          \/ on_order_created_item(w)
          \/ OrderCreatedFinish(w)
          \/ InventoryReleaseConsumed(w)
          \/ on_inventory_release_commit(w)
    \/ \E c \in Clients :
          \/ CreateOrder(c)
          \/ UpdateOrderStatusBegin(c)
          \/ update_order_status_commit(c)
          \/ CancelOrderBegin(c)
          \/ cancel_order_commit(c)
    \/ InventoryReservedConsumed
    \/ InventoryFailedConsumed

SpecSaga == Init /\ [][NextSaga]_vars

(***************************************************************************)
(* The saga of one order on stock part of which is reserved for an order   *)
(* placed earlier: product 1 was created with MaxQty units and the earlier *)
(* order's order_created reserved one of them.                             *)
(***************************************************************************)
EarlierOrder == MaxOrders + 1

\* the tables after those two operations
StockWithEarlierOrder ==
    [p \in Products |->
        IF p = 1 THEN InventoryItem(MaxQty - 1, 1, LOW_STOCK_THRESHOLD)
                 ELSE InventoryItem(MaxQty, 0, LOW_STOCK_THRESHOLD)]

HistoryWithEarlierOrder ==
    <<InventoryHistory(1, MaxQty, 0, MaxQty, "add", NoRef),
      InventoryHistory(2, MaxQty, 0, MaxQty, "add", NoRef),
      InventoryHistory(1, -1, MaxQty, MaxQty - 1, "reserve",
                       OrderRef(EarlierOrder))>>

InitRelease ==
    /\ inventory_items = StockWithEarlierOrder
    /\ inventory_history = HistoryWithEarlierOrder
    /\ session = [w \in Workers |-> Idle]
    /\ last = Done("none", 0, <<>>, <<>>)
    /\ queues = EmptyQueues
    /\ accepted = <<>>
    /\ ops = 0
    /\ orders = [o \in OrderIds |-> NoOrder]
    /\ requests = [c \in Clients |-> Idle]
    /\ observed = {}
    /\ topic = <<>>
    /\ consumer = RunningConsumer
    /\ settings = DefaultSettings
    /\ redis = EmptyRedis
    /\ notifications = <<>>
    /\ subscriber = Stopped
    /\ addresses = <<>>
    /\ address_requests = [c \in Clients |-> Idle]
    /\ verified = NotAsked

NextRelease ==
    \/ \E w \in Workers :
          \/ OrderCreatedConsumed(w)
          \/ on_order_created_item(w)
          \/ OrderCreatedFinish(w)
          \/ InventoryReleaseConsumed(w)
          \/ on_inventory_release_commit(w)
    \/ \E c \in Clients :
          \/ CreateOrder(c)
          \/ CancelOrderBegin(c)
          \/ cancel_order_commit(c)
    \/ InventoryReservedConsumed
    \/ InventoryFailedConsumed

SpecRelease == InitRelease /\ [][NextRelease]_vars


(***************************************************************************)
(* The Order Service endpoints on a collection that already holds orders:  *)
(* an order stored by POST /orders and moved along the transition table by *)
(* earlier requests can be in any status.  Published messages stay in      *)
(* their queues.                                                           *)
(***************************************************************************)
StoredOrders ==
    {NoOrder} \cup
    {[exists |-> TRUE, status |-> s, items |-> items,
      total_price |-> float(order_total(items, ListPrices(items))),
      cancellation_reason |-> NoReason] :
        s \in ORDER_STATUS, items \in OrderItemLists}

InitOrders ==
    /\ inventory_items = EmptyStock
    /\ inventory_history = <<>>
    /\ session = [w \in Workers |-> Idle]
    /\ last = Done("none", 0, <<>>, <<>>)
    /\ queues = EmptyQueues
    /\ accepted = <<>>
    /\ ops = 0
    /\ orders \in [OrderIds -> StoredOrders]
    /\ requests = [c \in Clients |-> Idle]
    /\ observed = {}
    /\ topic = <<>>
    /\ consumer = RunningConsumer
    /\ settings = DefaultSettings
    /\ redis = EmptyRedis
    /\ notifications = <<>>
    /\ subscriber = Stopped
    /\ addresses = <<>>
    /\ address_requests = [c \in Clients |-> Idle]
    /\ verified = NotAsked

NextOrders ==
    \E c \in Clients :
        \/ CreateOrder(c)
        \/ UpdateOrderStatusBegin(c)
        \/ update_order_status_commit(c)
        \/ CancelOrderBegin(c)
        \/ cancel_order_commit(c)

SpecOrders == InitOrders /\ [][NextOrders]_vars

(***************************************************************************)
(* The event-bus consumer of the Inventory Service on one partition.       *)
(***************************************************************************)
ProductEventPublished ==
    \E event \in ProductEvents :
        /\ Len(topic) < MaxLog
        /\ topic' = publish_event(topic, event)
        /\ UNCHANGED <<inventoryVars, queues, ops, consumer, orderVars, notifyVars, userVars, verified>>

ConsumeEvents == \E db_ok \in BOOLEAN : consume_events(db_ok)

NextKafka ==
    \/ ProductEventPublished
    \/ ConsumeEvents
    \/ create_consumer

SpecKafka == Init /\ [][NextKafka]_vars

(***************************************************************************)
(* Low-stock alerting in the Inventory Service: one worker, the            *)
(* notifications flag as the environment set it, and a Redis whose calls   *)
(* can start and stop failing.                                             *)
(***************************************************************************)
ReorderThresholds == {1, LOW_STOCK_THRESHOLD}

InitAlerts ==
    /\ inventory_items = EmptyStock
    /\ inventory_history = <<>>
    /\ session = [w \in Workers |-> Idle]
    /\ last = Done("none", 0, <<>>, <<>>)
    /\ queues = EmptyQueues
    /\ accepted = <<>>
    /\ ops = 0
    /\ orders = [o \in OrderIds |-> NoOrder]
    /\ requests = [c \in Clients |-> Idle]
    /\ observed = {}
    /\ topic = <<>>
    /\ consumer = RunningConsumer
    /\ settings \in [ENABLE_NOTIFICATIONS : BOOLEAN,
                      ADMIN_EMAIL : {DefaultSettings.ADMIN_EMAIL}]
    /\ redis = EmptyRedis
    /\ notifications = <<>>
    /\ subscriber = Stopped
    /\ addresses = <<>>
    /\ address_requests = [c \in Clients |-> Idle]
    /\ verified = NotAsked

\* POST /inventory with a reorder_threshold of the caller's choice
CreateStockedItem(w) ==
    \E item \in [product_id : Products, available_quantity : StockLevels,
                 reserved_quantity : {0},
                 reorder_threshold : ReorderThresholds] :
        create_inventory_item(w, item, TRUE)

\* a Redis call starts or stops failing
RedisFault ==
    \E fault \in RedisFaults :
        /\ fault # redis.fault
        /\ redis' = [redis EXCEPT !.fault = fault]
        /\ UNCHANGED <<inventoryVars, queues, ops, orderVars, kafkaVars,
                       alertVars, userVars, verified>>

NextAlerts ==
    \/ CreateStockedItem(SerialWorker)
    \/ UpdateBegin(SerialWorker)
    \/ update_inventory_item_commit(SerialWorker)
    \/ ReserveBegin(SerialWorker)
    \/ reserve_inventory_commit(SerialWorker)
    \/ ReleaseBegin(SerialWorker)
    \/ release_inventory_commit(SerialWorker)
    \/ AdjustBegin(SerialWorker)
    \/ adjust_inventory_commit(SerialWorker)
    \/ OrderCreatedDelivered(SerialWorker)
    \/ on_order_created_item(SerialWorker)
    \/ OrderCreatedFinish(SerialWorker)
    \/ RedisFault

SpecAlerts == InitAlerts /\ [][NextAlerts]_vars

(***************************************************************************)
(* The Notification Service and the alerts of one product: the Inventory   *)
(* Service adjusts a stocked row, the Notification Service starts, stops,  *)
(* receives and sends.                                                     *)
(***************************************************************************)
InitNotify ==
    /\ inventory_items \in
          {[EmptyStock EXCEPT ![1] = InventoryItem(MaxQty, 0, t)] :
              t \in ReorderThresholds}
    /\ inventory_history = <<>>
    /\ session = [w \in Workers |-> Idle]
    /\ last = Done("none", 0, <<>>, <<>>)
    /\ queues = EmptyQueues
    /\ accepted = <<>>
    /\ ops = 0
    /\ orders = [o \in OrderIds |-> NoOrder]
    /\ requests = [c \in Clients |-> Idle]
    /\ observed = {}
    /\ topic = <<>>
    /\ consumer = RunningConsumer
    /\ settings \in [ENABLE_NOTIFICATIONS : {TRUE},
                      ADMIN_EMAIL : {"", DefaultSettings.ADMIN_EMAIL}]
    /\ redis = EmptyRedis
    /\ notifications = <<>>
    /\ subscriber = Stopped
    /\ addresses = <<>>
    /\ address_requests = [c \in Clients |-> Idle]
    /\ verified = NotAsked

HandleLowStockSend ==
    \E success \in BOOLEAN : handle_low_stock_notification_send(success)

SendTestCommit ==
    \E success \in BOOLEAN : send_test_notification_commit(success)

NextNotify ==
    \/ AdjustBegin(SerialWorker)
    \/ adjust_inventory_commit(SerialWorker)
    \/ listen_for_notifications
    \/ stop
    \/ handle_low_stock_notification_begin
    \/ HandleLowStockSend
    \/ send_test_notification_begin
    \/ SendTestCommit

SpecNotify == InitNotify /\ [][NextNotify]_vars

(***************************************************************************)
(* The User Service under concurrent address requests.                     *)
(***************************************************************************)
CreateUserAddressBegin(c) ==
    \E user_id \in Users, is_default \in BOOLEAN :
        create_user_address_begin(c, user_id, is_default)

NextUsers ==
    \E c \in Clients :
        \/ CreateUserAddressBegin(c)
        \/ create_user_address_commit(c)

SpecUsers == Init /\ [][NextUsers]_vars

(***************************************************************************)
(* Placing orders: POST /orders with priced lines, against a User Service  *)
(* that answers, answers with an error, or cannot be reached.              *)
(***************************************************************************)
\* 0.01, 0.10, 5.00 and 10.00
Prices == {1, 10, 500, 1000}

PriceLists(items) == [DOMAIN items -> Prices]

PlaceOrder(c) ==
    \E o \in OrderIds, items \in OrderItemLists,
       response \in UserServiceResponses, products_valid \in BOOLEAN,
       publish_ok \in BOOLEAN :
        \E prices \in PriceLists(items) :
            create_order(c, o, items, prices, response, products_valid,
                         publish_ok)

NextCheckout == \E c \in Clients : PlaceOrder(c)

SpecCheckout == Init /\ [][NextCheckout]_vars

(***************************************************************************)
(* Product Service: POST /products publishes product.created with the      *)
(* reorder threshold it computes from the product's quantity.              *)
(***************************************************************************)
\* ProductCreate.quantity (int) as the catalog's clients send it
ProductQuantities == {0, 4, 50, 56, 60, 100}

\* create_product: the event carries
\* reorder_threshold = max(5, int(product.quantity * 0.1)); a failed
\* publish is logged and the request still answers 201
create_product(product_id, quantity, event_published) ==
    /\ Len(topic) < MaxLog
    /\ topic' =
         IF event_published
           THEN publish_event(topic,
                  [event_type |-> "product.created",
                   data |-> [product_id |-> product_id,
                             initial_quantity |-> quantity,
                             reorder_threshold |->
                                 ReorderThreshold(quantity)]])
           ELSE topic
    /\ UNCHANGED <<inventoryVars, queues, ops, consumer, orderVars, notifyVars, userVars, verified>>

CreateProduct ==
    \E p \in Products, quantity \in ProductQuantities,
       event_published \in BOOLEAN :
        create_product(p, quantity, event_published)

NextCatalog == CreateProduct

SpecCatalog == Init /\ [][NextCatalog]_vars

(***************************************************************************)
(* The event consumer of the Inventory Service from the startup hook to    *)
(* the shutdown hook: the startup hook has created the task, the event     *)
(* loop runs it, and the shutdown hook can run at any time.  The topic     *)
(* also receives records of other producers.                               *)
(***************************************************************************)
TopicRecords ==
    {[event_type |-> "product.created",
      data |-> [product_id |-> p, initial_quantity |-> 1,
                reorder_threshold |-> ReorderThreshold(1)]] : p \in Products}
    \cup {[event_type |-> "product.updated",
           data |-> [product_id |-> 1, initial_quantity |-> 0,
                     reorder_threshold |-> 5]]}
    \cup {UnknownEvent, NotJson}

InitConsumer ==
    /\ inventory_items = EmptyStock
    /\ inventory_history = <<>>
    /\ session = [w \in Workers |-> Idle]
    /\ last = Done("none", 0, <<>>, <<>>)
    /\ queues = EmptyQueues
    /\ accepted = <<>>
    /\ ops = 0
    /\ orders = [o \in OrderIds |-> NoOrder]
    /\ requests = [c \in Clients |-> Idle]
    /\ observed = {}
    /\ topic = <<>>
    /\ consumer = CreatedConsumer
    /\ settings = DefaultSettings
    /\ redis = EmptyRedis
    /\ notifications = <<>>
    /\ subscriber = Stopped
    /\ addresses = <<>>
    /\ address_requests = [c \in Clients |-> Idle]
    /\ verified = NotAsked

RecordProduced ==
    \E record \in TopicRecords :
        /\ Len(topic) < MaxLog
        /\ topic' = publish_event(topic, record)
        /\ UNCHANGED <<inventoryVars, queues, ops, consumer, orderVars, notifyVars, userVars, verified>>

\* the steps of the task that asyncio.create_task scheduled
ConsumerTask ==
    \/ start
    \/ ConsumeEvents
    \/ consume_events_exit

NextConsumer ==
    \/ RecordProduced
    \/ start
    \/ ConsumeEvents
    \/ consume_events_exit
    \/ stop_consumers

\* the event loop runs a task that is ready
SpecConsumer ==
    InitConsumer /\ [][NextConsumer]_vars /\ WF_vars(ConsumerTask)

(***************************************************************************)
(* The two background loops after the startup hooks: the event consumer    *)
(* of the Inventory Service in consume_events and the Notification Service *)
(* subscribed to the alert channel, with records and messages of any       *)
(* producer, well-formed or not.                                           *)
(***************************************************************************)
ChannelMessages ==
    {LowStockAlert("none", 1, InventoryItem(1, 0, 1)),
     UnknownNotification, NotJsonMessage}

InitLoops ==
    /\ inventory_items = EmptyStock
    /\ inventory_history = <<>>
    /\ session = [w \in Workers |-> Idle]
    /\ last = Done("none", 0, <<>>, <<>>)
    /\ queues = EmptyQueues
    /\ accepted = <<>>
    /\ ops = 0
    /\ orders = [o \in OrderIds |-> NoOrder]
    /\ requests = [c \in Clients |-> Idle]
    /\ observed = {}
    /\ topic = <<>>
    /\ consumer = RunningConsumer
    /\ settings = DefaultSettings
    /\ redis = EmptyRedis
    /\ notifications = <<>>
    /\ subscriber = [Stopped EXCEPT !.running = TRUE]
    /\ addresses = <<>>
    /\ address_requests = [c \in Clients |-> Idle]
    /\ verified = NotAsked

MessagePublished ==
    \E message \in ChannelMessages :
        /\ Len(redis.channel) < MaxLog
        /\ redis' = [redis EXCEPT !.channel = Append(@, message)]
        /\ UNCHANGED <<inventoryVars, queues, ops, orderVars, kafkaVars,
                       settings, notifications, subscriber, userVars, verified>>

HandleNotification == \E db_ok \in BOOLEAN : handle_notification(db_ok)

NextLoops ==
    \/ RecordProduced
    \/ ConsumeEvents
    \/ MessagePublished
    \/ handle_low_stock_notification_begin
    \/ HandleLowStockSend
    \/ HandleNotification

SpecLoops == InitLoops /\ [][NextLoops]_vars

(***************************************************************************)
(* C1: available_quantity >= 0 and reserved_quantity >= 0 hold for every   *)
(* inventory row in every committed state, over every interleaving of the  *)
(* requests and the handlers.                                              *)
(***************************************************************************)
C1_NonNegativeQuantities ==
    \A p \in Products :
        inventory_items[p].exists =>
            /\ inventory_items[p].available_quantity >= 0
            /\ inventory_items[p].reserved_quantity >= 0

\* a row drained to zero by committed reservations
C1_Witness ==
    \E p \in Products :
        /\ inventory_items[p].exists
        /\ inventory_items[p].available_quantity = 0
        /\ inventory_items[p].reserved_quantity > 0
        /\ Len(accepted) >= 2
        /\ accepted[Len(accepted)].kind \in {"reserve", "order_created"}

(***************************************************************************)
(* C2: when the order_created handler found a line item it could not       *)
(* reserve, finishing the handler changes no inventory row and no history  *)
(* row.                                                                    *)
(***************************************************************************)
SomeLineFailed(results) == \E i \in DOMAIN results : ~results[i].success
SomeLineReserved(results) == \E i \in DOMAIN results : results[i].success

C2_AllOrNothing ==
    [][\A w \in Workers :
          (/\ session[w].kind = "order_created"
           /\ session'[w].kind = "idle"
           /\ SomeLineFailed(session[w].inventory_results))
          => (/\ inventory_items' = inventory_items
              /\ inventory_history' = inventory_history)]_vars

\* an order with one reservable and one unreservable line has been handled
C2_Witness ==
    /\ last.kind = "order_created"
    /\ SomeLineFailed(last.results)
    /\ SomeLineReserved(last.results)

(***************************************************************************)
(* C3: every change of an order's status, by an endpoint or by a consumer, *)
(* is a transition listed in ALLOWED_STATUS_TRANSITIONS.                   *)
(***************************************************************************)
C3_ListedTransitionsOnly ==
    [][\A o \in OrderIds :
          (orders[o].exists /\ orders'[o].status # orders[o].status)
          => orders'[o].status \in ALLOWED_STATUS_TRANSITIONS[orders[o].status]
      ]_vars

(***************************************************************************)
(* C4: cancelled and refunded are terminal: no step changes the status of  *)
(* an order that is cancelled or refunded.                                 *)
(***************************************************************************)
C4_TerminalStatuses ==
    [][\A o \in OrderIds :
          (orders[o].exists /\ orders[o].status \in {"cancelled", "refunded"})
          => orders'[o].status = orders[o].status
      ]_vars

(***************************************************************************)
(* C5: the committed offset of the partition never passes a message whose  *)
(* handler has not succeeded: every offset below it has been handled.      *)
(***************************************************************************)
C5_NoCommitPastUnhandled ==
    \A offset \in 0..(consumer.committed - 1) : offset \in consumer.handled

(***************************************************************************)
(* C6: the committed quantities equal those of some serial order of the    *)
(* accepted operations.  SerialApply is the effect of one operation run    *)
(* alone; SerialResults are the stocks that the serial orders of a set of  *)
(* accepted operations lead to, each operation being accepted in its turn. *)
(***************************************************************************)
Refused == [ok |-> FALSE, items |-> <<>>]
Applied(stock) == [ok |-> TRUE, items |-> stock]

RECURSIVE SerialLines(_, _, _)
SerialLines(items, lines, i) ==
    IF i > Len(lines) THEN Applied(items)
    ELSE LET row == items[lines[i].product_id]
             q == lines[i].quantity
         IN  IF ~row.exists \/ row.available_quantity < q
               THEN Refused
               ELSE SerialLines(UpdateRow(items, lines[i].product_id,
                                          row.available_quantity - q,
                                          row.reserved_quantity + q),
                                lines, i + 1)

SerialApply(items, op) ==
    LET arg == op.args IN
    CASE op.kind = "create" ->
           IF items[arg.product_id].exists THEN Refused
           ELSE Applied([items EXCEPT ![arg.product_id] =
                   InventoryItem(arg.available_quantity, arg.reserved_quantity,
                                 arg.reorder_threshold)])
      [] op.kind = "product_created" ->
           IF items[arg.product_id].exists \/ arg.initial_quantity < 0 THEN Refused
           ELSE Applied([items EXCEPT ![arg.product_id] =
                   InventoryItem(arg.initial_quantity, 0, arg.reorder_threshold)])
      [] op.kind = "reserve" ->
           SerialLines(items, <<[product_id |-> arg.product_id,
                                 quantity |-> arg.quantity]>>, 1)
      [] op.kind = "order_created" ->
           SerialLines(items, arg.order_data.items, 1)
      [] op.kind \in {"release", "inventory_release"} ->
           LET row == items[arg.product_id]
               q == Min(arg.quantity, row.reserved_quantity)
           IN  IF ~row.exists THEN Refused
               ELSE Applied(UpdateRow(items, arg.product_id,
                                      row.available_quantity + q,
                                      row.reserved_quantity - q))
      [] op.kind = "adjust" ->
           LET row == items[arg.product_id] IN
           IF ~row.exists \/ row.available_quantity + arg.quantity_change < 0
             THEN Refused
             ELSE Applied(UpdateRow(items, arg.product_id,
                                    row.available_quantity + arg.quantity_change,
                                    row.reserved_quantity))
      [] OTHER -> Refused

RECURSIVE SerialResults(_, _)
SerialResults(stock, todo) ==
    IF todo = {} THEN {stock}
    ELSE UNION { IF SerialApply(stock, accepted[i]).ok
                   THEN SerialResults(SerialApply(stock, accepted[i]).items,
                                      todo \ {i})
                   ELSE {} : i \in todo }

StockOperations ==
    {"create", "product_created", "reserve", "order_created", "release",
     "inventory_release", "adjust"}

Quiescent == \A w \in Workers : session[w].kind = "idle"

C6_Serializable ==
    (/\ Quiescent
     /\ \A i \in DOMAIN accepted : accepted[i].kind \in StockOperations)
    => inventory_items \in
          SerialResults(EmptyStock, DOMAIN accepted)

(***************************************************************************)
(* C7: an order whose inventory_reserved message has been consumed and     *)
(* that no client has touched becomes processing and then paid: once no    *)
(* message is in flight and no handler or request is running, it is paid.  *)
(***************************************************************************)
SagaQuiescent ==
    /\ \A q \in QueueNames : queues[q] = <<>>
    /\ \A w \in Workers : session[w].kind = "idle"
    /\ \A c \in Clients : requests[c].kind = "idle"

C7_SagaProgress ==
    \A o \in OrderIds :
        (/\ orders[o].exists
         /\ Observe("inventory_reserved", o) \in observed
         /\ Observe("client", o) \notin observed
         /\ SagaQuiescent)
        => orders[o].status = "paid"

\* no message ever reaches the order_processed queue
OrderProcessedNeverPublished == queues["order_processed"] = <<>>

(***************************************************************************)
(* C8: once the inventory_failed message of an order has been consumed,    *)
(* the order (which no client has touched) is cancelled and carries a      *)
(* cancellation_reason.                                                    *)
(***************************************************************************)
C8_FailedOrderCancelled ==
    \A o \in OrderIds :
        (/\ orders[o].exists
         /\ Observe("inventory_failed", o) \in observed
         /\ Observe("client", o) \notin observed)
        => (/\ orders[o].status = "cancelled"
            /\ orders[o].cancellation_reason # NoReason)

(***************************************************************************)
(* C9: finishing the order_created handler publishes exactly one outcome   *)
(* message: inventory_reserved (status "reserved") when every line item    *)
(* was reserved and committed, inventory_failed otherwise, carrying the    *)
(* order id and the correlation id of the request.                         *)
(***************************************************************************)
NewMessages(queue_name) ==
    SubSeq(queues'[queue_name], Len(queues[queue_name]) + 1,
           Len(queues'[queue_name]))

C9_ExactlyOneOutcome ==
    [][\A w \in Workers :
          (session[w].kind = "order_created" /\ session'[w].kind = "idle")
          => LET reserved == NewMessages("inventory_reserved")
                 failed == NewMessages("inventory_failed")
                 outcome == reserved \o failed
                 committed == inventory_history' # inventory_history
             IN  /\ Len(outcome) = 1
                 /\ committed => (Len(reserved) = 1
                                  /\ reserved[1].body.status = "reserved")
                 /\ ~committed => Len(failed) = 1
                 /\ outcome[1].body.order_id = session[w].message.body.order_id
                 /\ outcome[1].correlation_id = session[w].message.correlation_id
      ]_vars

(***************************************************************************)
(* C10: an accepted POST /inventory/reserve of quantity q lowers           *)
(* available_quantity by q, raises reserved_quantity by q and appends      *)
(* exactly one history row: "reserve", quantity_change = -q, the order id  *)
(* as reference.                                                           *)
(***************************************************************************)
C10_ReserveEffect ==
    [][\A w \in Workers :
          (session[w].kind = "reserve" /\ session'[w].kind = "idle")
          => LET reservation == session[w].args
                 p == reservation.product_id
                 q == reservation.quantity
                 n == Len(inventory_history)
             IN  /\ q <= inventory_items[p].available_quantity
                 /\ inventory_items'[p].available_quantity =
                        inventory_items[p].available_quantity - q
                 /\ inventory_items'[p].reserved_quantity =
                        inventory_items[p].reserved_quantity + q
                 /\ Len(inventory_history') = n + 1
                 /\ SubSeq(inventory_history', 1, n) = inventory_history
                 /\ inventory_history'[n + 1].product_id = p
                 /\ inventory_history'[n + 1].change_type = "reserve"
                 /\ inventory_history'[n + 1].quantity_change = -q
                 /\ inventory_history'[n + 1].reference_id = reservation.order_id
      ]_vars

\* a reservation of the whole available stock has been accepted
C10_Witness ==
    /\ last.kind = "reserve"
    /\ last.status = 200
    /\ inventory_history # <<>>
    /\ LET row == inventory_history[Len(inventory_history)] IN
          /\ row.change_type = "reserve"
          /\ row.new_quantity = 0
          /\ row.quantity_change = -MaxQty
          /\ inventory_items[row.product_id].reserved_quantity >= MaxQty

(***************************************************************************)
(* C11: POST /inventory/reserve of more than the row's available_quantity  *)
(* is answered 400, changes neither quantity of any row and appends no     *)
(* history row; no unit of work is left open.                              *)
(***************************************************************************)
C11_ReserveRefused ==
    [][\A w \in Workers, reservation \in InventoryReserve :
          (/\ reserve_inventory_begin(w, reservation)
           /\ inventory_items[reservation.product_id].exists
           /\ reservation.quantity >
                  inventory_items[reservation.product_id].available_quantity)
          => (/\ last'.kind = "reserve"
              /\ last'.status = 400
              /\ inventory_items' = inventory_items
              /\ inventory_history' = inventory_history
              /\ accepted' = accepted
              /\ session'[w].kind = "idle")
      ]_vars

\* a reservation refused on a row that holds stock, after an accepted one
C11_Witness ==
    /\ last.kind = "reserve"
    /\ last.status = 400
    /\ \E p \in Products :
          /\ inventory_items[p].exists
          /\ inventory_items[p].available_quantity = 1
          /\ inventory_items[p].reserved_quantity > 0
    /\ \A w \in Workers : session[w].kind = "idle"
    /\ Len(accepted) = 2
    /\ accepted[2].kind = "reserve"
    /\ Len(inventory_history) = 2

(***************************************************************************)
(* C12: POST /inventory/release on an existing row is never refused; it    *)
(* releases min(requested, reserved): reserved_quantity falls by that      *)
(* amount and available_quantity rises by it, so a request above the       *)
(* reserved amount leaves reserved_quantity = 0 and raises                 *)
(* available_quantity by exactly what was reserved.                        *)
(***************************************************************************)
C12_ReleaseCapped ==
    [][\A w \in Workers :
          /\ \A release \in InventoryRelease :
                (/\ release_inventory_begin(w, release)
                 /\ inventory_items[release.product_id].exists)
                => (/\ session'[w].kind = "release"
                    /\ last' = last)
          /\ (session[w].kind = "release" /\ session'[w].kind = "idle")
             => LET release == session[w].args
                    p == release.product_id
                    row == inventory_items[p]
                    released == Min(release.quantity, row.reserved_quantity)
                    n == Len(inventory_history)
                IN  /\ last'.kind = "release"
                    /\ last'.status = 200
                    /\ inventory_items'[p].reserved_quantity =
                           row.reserved_quantity - released
                    /\ inventory_items'[p].available_quantity =
                           row.available_quantity + released
                    /\ release.quantity > row.reserved_quantity
                       => (/\ inventory_items'[p].reserved_quantity = 0
                           /\ inventory_items'[p].available_quantity =
                                  row.available_quantity + row.reserved_quantity)
                    /\ Len(inventory_history') = n + 1
                    /\ inventory_history'[n + 1].change_type = "release"
                    /\ inventory_history'[n + 1].quantity_change = released
      ]_vars

\* a release of MaxQty on a row holding one reserved unit has released one
C12_Witness ==
    /\ last.kind = "release"
    /\ last.status = 200
    /\ accepted # <<>>
    /\ accepted[Len(accepted)].kind = "release"
    /\ accepted[Len(accepted)].args.quantity = MaxQty
    /\ inventory_history # <<>>
    /\ LET row == inventory_history[Len(inventory_history)] IN
          /\ row.change_type = "release"
          /\ row.quantity_change = 1
          /\ row.quantity_change < MaxQty
          /\ inventory_items[row.product_id].reserved_quantity = 0

(***************************************************************************)
(* C13: POST /inventory/adjust whose delta would make available_quantity   *)
(* negative is answered 400 and changes neither the rows nor the history;  *)
(* any other delta is accepted, changes available_quantity by the delta    *)
(* and nothing else of the row, and appends one history row of type "add"  *)
(* for a positive delta and "remove" for a negative one.                   *)
(***************************************************************************)
C13_AdjustContract ==
    [][\A w \in Workers :
          /\ \A adjustment \in InventoryAdjust :
                (/\ adjust_inventory_begin(w, adjustment)
                 /\ inventory_items[adjustment.product_id].exists)
                => IF inventory_items[adjustment.product_id].available_quantity
                          + adjustment.quantity_change < 0
                     THEN /\ last'.kind = "adjust"
                          /\ last'.status = 400
                          /\ inventory_items' = inventory_items
                          /\ inventory_history' = inventory_history
                          /\ session'[w].kind = "idle"
                     ELSE session'[w].kind = "adjust"
          /\ (session[w].kind = "adjust" /\ session'[w].kind = "idle")
             => LET adjustment == session[w].args
                    p == adjustment.product_id
                    delta == adjustment.quantity_change
                    n == Len(inventory_history)
                IN  /\ last'.kind = "adjust"
                    /\ last'.status = 200
                    /\ inventory_items' =
                          [inventory_items EXCEPT ![p].available_quantity =
                              @ + delta]
                    /\ Len(inventory_history') = n + 1
                    /\ SubSeq(inventory_history', 1, n) = inventory_history
                    /\ inventory_history'[n + 1].product_id = p
                    /\ inventory_history'[n + 1].quantity_change = delta
                    /\ delta > 0 => inventory_history'[n + 1].change_type = "add"
                    /\ delta < 0 => inventory_history'[n + 1].change_type = "remove"
      ]_vars

\* a negative adjustment has been applied to a row with reserved stock
C13_Witness ==
    /\ last.kind = "adjust"
    /\ last.status = 200
    /\ inventory_history # <<>>
    /\ LET row == inventory_history[Len(inventory_history)] IN
          /\ row.change_type = "remove"
          /\ row.quantity_change < 0
          /\ row.new_quantity = 0
          /\ inventory_items[row.product_id].available_quantity = 0
          /\ inventory_items[row.product_id].reserved_quantity > 0

(***************************************************************************)
(* C14: the history of a product grows by one row with every accepted      *)
(* mutating operation and only then: a step in which create, update,       *)
(* reserve, release or adjust is accepted and changes a row appends        *)
(* exactly one history row, and a step that accepts no operation (a        *)
(* refused request among them) appends none.                               *)
(***************************************************************************)
HttpOperations == {"create", "update", "reserve", "release", "adjust"}

C14_OneRowPerOperation ==
    [][/\ (/\ Len(accepted') = Len(accepted) + 1
           /\ accepted'[Len(accepted')].kind \in HttpOperations
           /\ inventory_items' # inventory_items)
          => Len(inventory_history') = Len(inventory_history) + 1
       /\ accepted' = accepted => inventory_history' = inventory_history
      ]_vars

(***************************************************************************)
(* C15: the history rows a step appends for a product record the change of *)
(* its available_quantity: new_quantity - previous_quantity =               *)
(* quantity_change in each row, the first row's previous_quantity is the   *)
(* available_quantity before the step (0 for a row being created), each    *)
(* further row starts where the one before ended, and the last row's       *)
(* new_quantity is the available_quantity after the step.                  *)
(***************************************************************************)
AppendedRows(p) ==
    SelectSeq(SubSeq(inventory_history', Len(inventory_history) + 1,
                     Len(inventory_history')),
              LAMBDA row : row.product_id = p)

RowsBalance(rows) ==
    \A i \in DOMAIN rows :
        rows[i].new_quantity - rows[i].previous_quantity = rows[i].quantity_change

C15_HistorySnapshots ==
    [][\A p \in Products :
          LET rows == AppendedRows(p)
              before == IF inventory_items[p].exists
                          THEN inventory_items[p].available_quantity ELSE 0
          IN  rows # <<>>
              => (/\ RowsBalance(rows)
                  /\ rows[1].previous_quantity = before
                  /\ \A i \in 2..Len(rows) :
                        rows[i].previous_quantity = rows[i - 1].new_quantity
                  /\ rows[Len(rows)].new_quantity =
                        inventory_items'[p].available_quantity)
      ]_vars

\* the difference recorded in a row is its quantity_change, in every row
HistoryRowsBalance == RowsBalance(inventory_history)

(***************************************************************************)
(* C16: PUT /orders/{id}/status on a stored order: a target that the       *)
(* transition table does not list for the order's status is answered 400   *)
(* with the allowed next states, nothing is stored and no write is left    *)
(* pending; a listed target is accepted, and the write that follows stores *)
(* it as the order's status.                                               *)
(***************************************************************************)
C16_StatusTransitionChecked ==
    [][\A c \in Clients :
          /\ \A o \in OrderIds, new_status \in ORDER_STATUS,
                published \in PublishOutcomes :
                (/\ update_order_status_begin(c, o, new_status, published)
                 /\ orders[o].exists)
                => IF new_status \notin ALLOWED_STATUS_TRANSITIONS[orders[o].status]
                     THEN /\ last' = Answer("update_order_status", 400,
                                       ALLOWED_STATUS_TRANSITIONS[orders[o].status])
                          /\ orders' = orders
                          /\ requests' = requests
                          /\ queues' = queues
                     ELSE /\ requests'[c].kind = "status"
                          /\ requests'[c].order_id = o
                          /\ requests'[c].new_status = new_status
          /\ (requests[c].kind = "status" /\ requests'[c].kind = "idle")
             => (/\ orders'[requests[c].order_id].status = requests[c].new_status
                 /\ last' = Answer("update_order_status", 200, {}))
      ]_vars

\* a paid order (a client's request was stored) refused a further target,
\* the answer naming the states allowed after paid
C16_Witness ==
    /\ last = Answer("update_order_status", 400,
                     {"processing", "cancelled", "refunded"})
    /\ \E o \in OrderIds :
          /\ orders[o].exists
          /\ orders[o].status = "paid"
          /\ Observe("client", o) \in observed
    /\ \A c \in Clients : requests[c].kind = "idle"

(***************************************************************************)
(* C17: DELETE /orders/{id} on an order read as pending, paid or           *)
(* processing publishes the inventory_release messages of its line items,  *)
(* in order, one per item whose publish succeeds (order id, product id,    *)
(* quantity) and so exactly one per line item when every publish succeeds, *)
(* while the stored status is still unchanged; whatever the publishes did, *)
(* the request goes on to the write, which stores cancelled and publishes  *)
(* nothing more.                                                           *)
(***************************************************************************)
ReleaseMessages(order_id, items) ==
    [i \in DOMAIN items |->
        [body |-> [order_id |-> order_id, product_id |-> items[i].product_id,
                   quantity |-> items[i].quantity],
         correlation_id |-> 0]]

RECURSIVE Keep(_, _, _)
Keep(messages, positions, i) ==
    IF i > Len(messages) THEN <<>>
    ELSE (IF i \in positions THEN <<messages[i]>> ELSE <<>>)
         \o Keep(messages, positions, i + 1)

C17_CancelReleasesThenCancels ==
    [][\A c \in Clients :
          /\ \A o \in OrderIds, published \in PublishOutcomes :
                (/\ cancel_order_begin(c, o, published)
                 /\ orders[o].exists
                 /\ orders[o].status \in {"pending", "paid", "processing"})
                => (/\ NewMessages("inventory_release") =
                          Keep(ReleaseMessages(o, orders[o].items), published, 1)
                    /\ DOMAIN orders[o].items \subseteq published
                       => NewMessages("inventory_release") =
                              ReleaseMessages(o, orders[o].items)
                    /\ orders' = orders
                    /\ requests'[c].kind = "cancel"
                    /\ requests'[c].order_id = o)
          /\ (requests[c].kind = "cancel" /\ requests'[c].kind = "idle")
             => (/\ orders'[requests[c].order_id].status = "cancelled"
                 /\ queues' = queues
                 /\ last' = Answer("cancel_order", 204, {}))
      ]_vars

\* the releases of a two-line processing order are published and the status
\* write is still to come
C17_BetweenPublishAndWrite ==
    \E c \in Clients, o \in OrderIds :
        /\ requests[c].kind = "cancel"
        /\ requests[c].order_id = o
        /\ orders[o].status = "processing"
        /\ Len(orders[o].items) = 2
        /\ queues["inventory_release"] = ReleaseMessages(o, orders[o].items)

(***************************************************************************)
(* C18: DELETE /orders/{id} on an order whose status is shipped,           *)
(* delivered, cancelled or refunded is answered 400, stores nothing,       *)
(* leaves no write pending and publishes no message.                       *)
(***************************************************************************)
C18_CancelRefused ==
    [][\A c \in Clients, o \in OrderIds, published \in PublishOutcomes :
          (/\ cancel_order_begin(c, o, published)
           /\ orders[o].exists
           /\ orders[o].status \in {"shipped", "delivered", "cancelled", "refunded"})
          => (/\ last' = Answer("cancel_order", 400, {})
              /\ orders' = orders
              /\ requests' = requests
              /\ queues' = queues)
      ]_vars

\* a refunded order has refused its cancellation
C18_Witness ==
    /\ last = Answer("cancel_order", 400, {})
    /\ \A o \in OrderIds : orders[o].exists /\ orders[o].status = "refunded"
    /\ \A c \in Clients : requests[c].kind = "idle"
    /\ queues["inventory_release"] = <<>>

(***************************************************************************)
(* C19: PUT /orders/{id}/status moving a pending order to cancelled        *)
(* publishes, before the status is stored, the inventory_release messages  *)
(* of the order's line items, one per item, as DELETE /orders/{id} does    *)
(* (no publish failing).                                                   *)
(***************************************************************************)
C19_StatusCancelReleases ==
    [][\A c \in Clients, o \in OrderIds :
          (/\ update_order_status_begin(c, o, "cancelled", 1..2)
           /\ orders[o].exists
           /\ orders[o].status = "pending")
          => (/\ NewMessages("inventory_release") =
                    ReleaseMessages(o, orders[o].items)
              /\ orders' = orders)
      ]_vars

(***************************************************************************)
(* C20: handling a product.created event (the database answering) returns  *)
(* success; for a product without an inventory row it creates the row      *)
(* (available = initial_quantity, reserved = 0, threshold of the payload)  *)
(* and one "add" history row; for a product that has a row (the event      *)
(* handled before) it changes no row and appends no history row.           *)
(***************************************************************************)
C20_ProductCreatedIdempotent ==
    [][\A data \in ProductCreatedEventData :
          handle_product_created(data, TRUE)
          => LET p == data.product_id
                 n == Len(inventory_history)
             IN  /\ last'.kind = "product_created"
                 /\ last'.status = 200
                 /\ IF inventory_items[p].exists
                      THEN /\ inventory_items' = inventory_items
                           /\ inventory_history' = inventory_history
                      ELSE /\ inventory_items' =
                                 [inventory_items EXCEPT ![p] =
                                     InventoryItem(data.initial_quantity, 0,
                                                   data.reorder_threshold)]
                           /\ Len(inventory_history') = n + 1
                           /\ SubSeq(inventory_history', 1, n) = inventory_history
                           /\ inventory_history'[n + 1] =
                                 InventoryHistory(p, data.initial_quantity, 0,
                                                  data.initial_quantity, "add",
                                                  ProductCreatedRef(p))
      ]_vars

\* the same for the events whose initial_quantity is not negative
StockedProductCreatedIdempotent ==
    [][\A data \in ProductCreatedEventData :
          (handle_product_created(data, TRUE) /\ data.initial_quantity >= 0)
          => LET p == data.product_id
                 n == Len(inventory_history)
             IN  /\ last'.status = 200
                 /\ IF inventory_items[p].exists
                      THEN /\ inventory_items' = inventory_items
                           /\ inventory_history' = inventory_history
                      ELSE /\ inventory_items'[p] =
                                 InventoryItem(data.initial_quantity, 0,
                                               data.reorder_threshold)
                           /\ Len(inventory_history') = n + 1
      ]_vars

(***************************************************************************)
(* C21: a mutation that leaves available_quantity <= reorder_threshold     *)
(* publishes the low-stock alert exactly once to the pub/sub channel and   *)
(* exactly once to the durable stream; a mutation that leaves it above the *)
(* threshold publishes nothing; with notifications disabled nothing is     *)
(* ever published.  The mutations that run the check are PUT, reserve,     *)
(* adjust and each line of a committed order_created.                      *)
(* AlertsOfStep(TRUE) is the statement with the Redis faults taken into    *)
(* account: a failing publish leaves both empty, a failing stream append   *)
(* leaves the alert on the channel only.  AlertsOfStep(FALSE) is the       *)
(* statement as it stands.                                                 *)
(***************************************************************************)
Grown(old, new, n) ==
    /\ Len(new) = Len(old) + n
    /\ SubSeq(new, 1, Len(old)) = old

AlertOf(alert, p, row) ==
    /\ alert.type = "low_stock"
    /\ alert.product_id = p
    /\ alert.current_quantity = row.available_quantity
    /\ alert.threshold = row.reorder_threshold

\* the alerts a step that leaves n checked rows at or below their threshold
\* adds to the channel and to the stream
Alerted(n, with_faults) ==
    LET expected == IF settings.ENABLE_NOTIFICATIONS THEN n ELSE 0
        on_channel == IF with_faults /\ redis.fault = "publish"
                        THEN 0 ELSE expected
        on_stream == IF with_faults /\ redis.fault \in {"publish", "add_to_stream"}
                       THEN 0 ELSE expected
    IN  /\ Grown(redis.channel, redis'.channel, on_channel)
        /\ Grown(redis.stream, redis'.stream, on_stream)

CheckedRow(w) ==
    IF session[w].kind = "update" THEN session[w].product_id
                                  ELSE session[w].args.product_id

AlertsOfStep(with_faults) ==
    /\ \A w \in Workers :
          (\/ update_inventory_item_commit(w)
           \/ reserve_inventory_commit(w)
           \/ adjust_inventory_commit(w))
          => LET p == CheckedRow(w)
                 row == inventory_items'[p]
                 low == /\ last'.status = 200
                        /\ row.available_quantity <= row.reorder_threshold
             IN  /\ Alerted(IF low THEN 1 ELSE 0, with_faults)
                 /\ Len(redis'.channel) > Len(redis.channel)
                      => AlertOf(redis'.channel[Len(redis'.channel)], p, row)
                 /\ Len(redis'.stream) > Len(redis.stream)
                      => AlertOf(redis'.stream[Len(redis'.stream)], p, row)
    /\ \A w \in Workers :
          (\E a \in BOOLEAN, b \in BOOLEAN : on_order_created_finish(w, a, b))
          => LET items == session[w].message.body.order_data.items
                 low == {k \in DOMAIN items :
                           LET row == inventory_items'[items[k].product_id] IN
                           /\ last'.status = 200
                           /\ row.available_quantity <= row.reorder_threshold}
             IN  Alerted(Cardinality(low), with_faults)
    /\ redis'.channel # redis.channel \/ redis'.stream # redis.stream
          => \E w \in Workers :
                \/ update_inventory_item_commit(w)
                \/ reserve_inventory_commit(w)
                \/ adjust_inventory_commit(w)
                \/ \E a \in BOOLEAN, b \in BOOLEAN :
                      on_order_created_finish(w, a, b)

Caught ==
    /\ subscriber.running
    /\ subscriber.handling = 0
    /\ subscriber.position = Len(redis.channel)
    /\ Len(notifications) < MaxNotifications

LowStockRows ==
    SelectSeq(notifications, LAMBDA row : row.type = "low_stock")

C22_NoAlertLost ==
    Caught =>
        /\ Len(LowStockRows) >= Len(redis.stream)
        /\ \A k \in DOMAIN redis.stream :
              \E n \in DOMAIN LowStockRows :
                  LowStockRows[n].data = redis.stream[k]

(***************************************************************************)
(* C23: a failure in the low-stock notification path (name lookup,         *)
(* publish, stream append) never fails the operation that triggered it:    *)
(* while a Redis call or the lookup fails, a PUT, reserve or adjust that   *)
(* commits still answers 200 with its row written and its session closed,  *)
(* and an order_created whose reservations commit still publishes          *)
(* inventory_reserved and no inventory_failed.                             *)
(***************************************************************************)
C23_NotificationFailureContained ==
    [][\A w \in Workers :
         /\ ( /\ \/ update_inventory_item_commit(w)
                 \/ reserve_inventory_commit(w)
                 \/ adjust_inventory_commit(w)
              /\ redis.fault # "none"
              /\ Len(accepted') > Len(accepted) )
            => /\ last'.status = 200
               /\ session'[w] = Idle
               /\ Len(inventory_history') >= Len(inventory_history)
               /\ inventory_items'[CheckedRow(w)].exists
         /\ ( /\ \E b \in BOOLEAN : on_order_created_finish(w, TRUE, b)
              /\ redis.fault # "none"
              /\ Len(accepted') > Len(accepted) )
            => /\ last'.status = 200
               /\ session'[w] = Idle
               /\ queues'["inventory_failed"] = queues["inventory_failed"]
               /\ queues'["inventory_reserved"] =
                     Append(queues["inventory_reserved"],
                            [body |-> ReservedMessage(
                                         session[w].message.body.order_id,
                                         session[w].inventory_results),
                             correlation_id |-> session[w].message.correlation_id])
      ]_vars

\* a reservation committed and answered 200 with notifications enabled; it
\* left the row at or below its threshold, and the channel is still empty:
\* its publish failed
C23_Witness ==
    /\ settings.ENABLE_NOTIFICATIONS
    /\ last.kind = "reserve"
    /\ last.status = 200
    /\ redis.channel = <<>>
    /\ Len(accepted) >= 2

(***************************************************************************)
(* C24: every Notification row is created with status pending; its status  *)
(* changes only from pending, to sent with sent_at set when the send       *)
(* succeeded or to failed with a non-empty error_message when it did not;  *)
(* a row that is sent or failed never changes again, and no row is removed.*)
(***************************************************************************)
SentOrFailed(row, success) ==
    IF success THEN row.status = "sent" /\ row.sent_at
               ELSE row.status = "failed" /\ row.error_message # ""

C25_PublishFailureTolerated ==
    [][\A c \in Clients, o \in OrderIds, items \in OrderItemLists,
          publish_ok \in BOOLEAN :
          create_order(c, o, items, ListPrices(items),
                       verify_user_exists("active"), TRUE, publish_ok)
             => /\ last'.status = 201
                /\ orders'[o].exists
                /\ orders'[o].status = "pending"
      ]_vars

\* the order is stored as pending whether or not the publish went through
OrderStoredBeforePublish ==
    [][\A c \in Clients, o \in OrderIds, items \in OrderItemLists,
          publish_ok \in BOOLEAN :
          create_order(c, o, items, ListPrices(items),
                       verify_user_exists("active"), TRUE, publish_ok)
             => /\ orders'[o].exists
                /\ orders'[o].status = "pending"
                /\ last'.status = IF publish_ok THEN 201 ELSE 500
      ]_vars

(***************************************************************************)
(* C26: for any sequence of address creations of one user, the first       *)
(* address created is stored with is_default = true whatever the request   *)
(* flag, an address created later with is_default = true clears the flag   *)
(* of the previous default, and at every moment at most one address of the *)
(* user has is_default = true.                                             *)
(***************************************************************************)
DefaultsOf(rows, user_id) ==
    {i \in DOMAIN rows : rows[i].user_id = user_id /\ rows[i].is_default}

C26_OneDefaultAddress ==
    [][/\ \A u \in Users : Cardinality(DefaultsOf(addresses', u)) <= 1
       /\ \A c \in Clients :
             create_user_address_commit(c) /\ last'.status = 201
                => LET r == address_requests[c]
                       new == Len(addresses')
                       before == {i \in DOMAIN addresses :
                                     addresses[i].user_id = r.user_id}
                   IN  /\ new = Len(addresses) + 1
                       /\ addresses'[new].user_id = r.user_id
                       /\ before = {} => addresses'[new].is_default
                       /\ r.is_default
                            => DefaultsOf(addresses', r.user_id) = {new}
      ]_vars

\* the user's second address was created as default and the first one,
\* default until then, has lost the flag
C26_Witness ==
    /\ last.kind = "create_user_address"
    /\ last.status = 201
    /\ addresses = <<Address(1, FALSE), Address(1, TRUE)>>

(***************************************************************************)
(* C27: a POST /orders that passes the user and product checks stores the  *)
(* order as pending with total_price equal to the exact sum of price times *)
(* quantity over its lines, prices being amounts with two decimals: no     *)
(* cent is gained or lost (2 x 10.00 + 1 x 5.00 is stored as 25.00).       *)
(***************************************************************************)
RECURSIVE LineSum(_, _)
LineSum(items, prices) ==
    IF items = <<>> THEN 0
    ELSE Head(prices) * Head(items).quantity + LineSum(Tail(items), Tail(prices))

SaidNotValid(response) ==
    /\ response.kind = "response"
    /\ response.status_code = 200
    /\ ~response.valid

RECURSIVE HeldFor(_, _, _)
HeldFor(history, ref, p) ==
    IF history = <<>> THEN 0
    ELSE LET row == history[Len(history)]
             before == HeldFor(SubSeq(history, 1, Len(history) - 1), ref, p)
         IN  IF row.product_id # p \/ row.reference_id # ref THEN before
             ELSE IF row.change_type = "reserve"
               THEN before - row.quantity_change
             ELSE IF row.change_type = "release"
               THEN Max(0, before - row.quantity_change)
             ELSE before

OrderRefs == {OrderRef(o) : o \in OrderIds \cup {EarlierOrder}}

RECURSIVE HeldForAll(_, _, _)
HeldForAll(history, refs, p) ==
    IF refs = {} THEN 0
    ELSE LET ref == CHOOSE r \in refs : TRUE
         IN  HeldFor(history, ref, p) + HeldForAll(history, refs \ {ref}, p)

C29_ReleaseOwnReservationOnly ==
    [][\A w \in Workers :
          (session[w].kind = "inventory_release"
             /\ on_inventory_release_commit(w))
          => LET data == session[w].message.body
                 others == OrderRefs \ {OrderRef(data.order_id)}
             IN  inventory_items'[data.product_id].reserved_quantity
                    >= HeldForAll(inventory_history, others, data.product_id)
      ]_vars

(***************************************************************************)
(* C30: once an order is cancelled, each of its line items has had its     *)
(* inventory_release message consumed and no message, handler or request   *)
(* is in flight, the inventory holds no reservation for the order, in      *)
(* whatever order its order_created and inventory_release messages were    *)
(* delivered.                                                              *)
(***************************************************************************)
ReleaseRows(o) ==
    {i \in DOMAIN inventory_history :
        /\ inventory_history[i].change_type = "release"
        /\ inventory_history[i].reference_id = OrderRef(o)}

C30_CancelledOrderHoldsNothing ==
    \A o \in OrderIds :
        (/\ orders[o].exists
         /\ orders[o].status = "cancelled"
         /\ Cardinality(ReleaseRows(o)) = Len(orders[o].items)
         /\ SagaQuiescent)
        => \A p \in Products :
              HeldFor(inventory_history, OrderRef(o), p) = 0

(***************************************************************************)
(* C31: the order_created handler publishes an inventory_failed message    *)
(* for an order only when it commits no reservation for that order: a step *)
(* that adds a message to the inventory_failed queue leaves the inventory  *)
(* items and the history as they were.                                     *)
(***************************************************************************)
C31_FailedMeansNothingReserved ==
    [][\A w \in Workers, publish_ok \in BOOLEAN, error_publish_ok \in BOOLEAN :
          (/\ session[w].kind = "order_created"
           /\ on_order_created_finish(w, publish_ok, error_publish_ok)
           /\ NewMessages("inventory_failed") # <<>>)
          => /\ inventory_items' = inventory_items
             /\ inventory_history' = inventory_history
      ]_vars

(***************************************************************************)
(* C32: for one order at most one inventory_release message per line item  *)
(* is ever published, over any interleaving of DELETE /orders/{id} and     *)
(* PUT /orders/{id}/status requests: with no consumer taking messages out, *)
(* the inventory_release queue never holds more messages of an order than  *)
(* the order has line items.                                               *)
(***************************************************************************)
ReleasesPublished(o) ==
    {i \in DOMAIN queues["inventory_release"] :
        queues["inventory_release"][i].body.order_id = o}

C32_OneReleasePerLineItem ==
    \A o \in OrderIds :
        Cardinality(ReleasesPublished(o)) <= Len(orders[o].items)

(***************************************************************************)
(* C33: when the inventory operations do not overlap, the history rows of  *)
(* a product form a chain: each row's previous_quantity is the             *)
(* new_quantity of the row written before it, and the new_quantity of the  *)
(* most recent row is the item's current available_quantity.               *)
(***************************************************************************)
RowsOf(p) == SelectSeq(inventory_history, LAMBDA row : row.product_id = p)

ReleaseEffect(p, quantity, ref) ==
    LET row == inventory_items[p]
        n == IF quantity < row.reserved_quantity THEN quantity
                                                 ELSE row.reserved_quantity
    IN  [items |-> [inventory_items EXCEPT
                      ![p].reserved_quantity = @ - n,
                      ![p].available_quantity = @ + n],
         history |-> Append(inventory_history,
                            [product_id |-> p, quantity_change |-> n,
                             previous_quantity |-> row.available_quantity,
                             new_quantity |-> row.available_quantity + n,
                             change_type |-> "release",
                             reference_id |-> ref])]

HasEffect(effect) ==
    /\ inventory_items' = effect.items
    /\ inventory_history' = effect.history
    /\ redis' = redis

AddressesOf(rows, user_id, is_default) ==
    {i \in DOMAIN rows :
        rows[i].user_id = user_id /\ rows[i].is_default = is_default}

HoldsBoth(user_id) ==
    /\ AddressesOf(addresses, user_id, TRUE) # {}
    /\ AddressesOf(addresses, user_id, FALSE) # {}

C35_OneAddressPerFlag ==
    [][/\ \A u \in Users, flag \in BOOLEAN :
             Cardinality(AddressesOf(addresses', u, flag)) <= 1
       /\ \A c \in Clients :
             (/\ address_requests[c].kind = "create_user_address"
              /\ create_user_address_commit(c)
              /\ HoldsBoth(address_requests[c].user_id))
             => /\ addresses' = addresses
                /\ last'.status = 500
      ]_vars

\* a user holding a default and a non-default address whose next creation
\* was refused
C35_Witness ==
    /\ last.kind = "create_user_address"
    /\ last.status = 500
    /\ \E u \in Users :
          /\ HoldsBoth(u)
          /\ \A v \in Users \ {u} : AddressesOf(addresses, v, TRUE) = {}

(***************************************************************************)
(* C39: on product creation the reorder_threshold carried by the           *)
(* product.created event equals max(5, round(quantity x 0.1)) for every    *)
(* product quantity >= 0, whichever way a half is rounded.                 *)
(***************************************************************************)
\* r is quantity / 10 rounded to a nearest integer
RoundedTenth(quantity, r) ==
    /\ 10 * r - quantity <= 5
    /\ quantity - 10 * r <= 5

C39_ThresholdIsRoundedTenth ==
    \A i \in DOMAIN topic :
        (topic[i].event_type = "product.created"
            /\ topic[i].data.initial_quantity >= 0) =>
        \E r \in 0..(topic[i].data.initial_quantity \div 10 + 1) :
            /\ RoundedTenth(topic[i].data.initial_quantity, r)
            /\ topic[i].data.reorder_threshold = Max(5, r)

(***************************************************************************)
(* C36: the background loops go on after a message they cannot process:    *)
(* after a record that is not JSON or a handler that fails, the poll loop  *)
(* of the event consumer and the subscribe loop of the Notification        *)
(* Service are still running and receive the next message.                 *)
(***************************************************************************)
\* the pass of the poll loop could not process its record
FailedPass(db_ok) ==
    /\ consume_events(db_ok)
    /\ json_loads_raises(topic[consumer.position + 1]) \/ last'.status = 500

C36_LoopsSurviveBadMessages ==
    [][/\ \A db_ok \in BOOLEAN :
            FailedPass(db_ok) =>
                /\ consumer'.running
                /\ consumer'.registered
                /\ consumer'.task = "consuming"
                /\ consumer'.position = consumer.position + 1
                /\ consumer'.committed = consumer.committed
       /\ \A db_ok \in BOOLEAN :
            handle_notification(db_ok) =>
                /\ subscriber'.running
                /\ subscriber'.position = subscriber.position + 1
                /\ notifications' = notifications]_vars

\* each loop has processed a message that came after one that is not JSON
C36_Witness ==
    /\ Len(topic) >= 2
    /\ topic[1] = NotJson
    /\ topic[2].event_type = "product.created"
    /\ consumer.handled = {1}
    /\ inventory_items[topic[2].data.product_id].exists
    /\ Len(redis.channel) >= 2
    /\ redis.channel[1] = NotJsonMessage
    /\ subscriber.position >= 2
    /\ Len(notifications) = 1
    /\ notifications[1].data = redis.channel[2]

(***************************************************************************)
(* C37: after stop_consumers the consume_events loop eventually exits and  *)
(* hands no further message to the handler, also when stop_consumers runs  *)
(* before the task created at startup has entered consume_events.          *)
(***************************************************************************)
C37_StopEndsLoop ==
    /\ consumer.stopped ~> consumer.task = "exited"
    /\ [][consumer.stopped =>
              \A db_ok \in BOOLEAN : ~consume_events(db_ok)]_vars

(***************************************************************************)
(* C38: consuming a product.updated event, or an event of a type the       *)
(* consumer does not know, changes no inventory item and no history row    *)
(* and returns success, so that the offset of the message is committed.    *)
(***************************************************************************)
OtherEventTypes == {"product.updated", UnknownEvent.event_type}

C38_OtherEventsOnlyCommitted ==
    [][\A db_ok \in BOOLEAN :
          (/\ consume_events(db_ok)
           /\ topic[consumer.position + 1].event_type \in OtherEventTypes) =>
          /\ inventory_items' = inventory_items
          /\ inventory_history' = inventory_history
          /\ last'.status = 200
          /\ consumer'.committed = consumer.position + 1
          /\ consumer.position \in consumer'.handled]_vars

\* both kinds of event were consumed and committed
C38_Witness ==
    \A type \in OtherEventTypes :
        \E offset \in consumer.handled :
            /\ topic[offset + 1].event_type = type
            /\ offset < consumer.committed

====
